---- MODULE Spec2Model ----
(***************************************************************************)
(* State-machine model of the Secret Santa gift-opening game: the          *)
(* in-memory MockStore (src/lib/mockStore.ts), the hosted SupabaseStore    *)
(* (src/lib/supabaseStore.ts with the SQL schema and functions) and the    *)
(* scoring loop calculatePoints of the results page.                       *)
(***************************************************************************)
EXTENDS Integers, Sequences, FiniteSets, TLC

(***************************************************************************)
(* Bounds of the model.                                                    *)
(***************************************************************************)
\* how many distinct names may register
MaxPlayers == 2
\* largest round index a guess or an actual Santa is submitted for
MaxRound == 1
\* largest value of the wall clock (Date.now())
MaxClock == 2
\* how many submissions, actual-Santa records and votes the store may hold
MaxRecords == 2

(***************************************************************************)
(* Program constants.                                                      *)
(***************************************************************************)
\* durationSec of a new room
DefaultDurationSec == 90
\* fixed default roster used when nobody registered
ALL_PLAYERS == <<"Alice", "Bob">>

(***************************************************************************)
(* Values.  A nullable value (number | null) is a sequence of length at    *)
(* most one: << >> is null.                                                *)
(***************************************************************************)
Null == << >>
Some(v) == <<v>>

NamePool == <<"Alice", "Carol", "Bob", "Dave">>
Min(a, b) == IF a < b THEN a ELSE b
\* names that players type in
RegNames == {NamePool[i] : i \in 1..Min(MaxPlayers, Len(NamePool))}
AllNames == RegNames \cup {ALL_PLAYERS[i] : i \in 1..Len(ALL_PLAYERS)}
Rounds == 0..MaxRound
GameModes == {"risk", "safe"}
GuessLists == {<<"Bob">>, <<"Carol", "Bob">>}
Durations == {60, DefaultDurationSec}

Range(s) == {s[i] : i \in 1..Len(s)}
NoDup(s) == \A i, j \in 1..Len(s) : s[i] = s[j] => i = j
\* every reordering of the sequence s
Permutations_(s) ==
  {t \in [1..Len(s) -> Range(s)] :
     \E f \in [1..Len(s) -> 1..Len(s)] :
        /\ \A i, j \in 1..Len(s) : f[i] = f[j] => i = j
        /\ \A i \in 1..Len(s) : t[i] = s[f[i]]}

VARIABLES
  roomState,      \* MockStore.roomState
  activePlayers,  \* MockStore.activePlayers, a Set in insertion order
  submissions,    \* MockStore.submissions: key -> Submission
  actualSantas,   \* MockStore.actualSantas: round index -> name
  pollVotes,      \* MockStore.pollVotes: voter -> voted for
  sweaterVotes,   \* MockStore.sweaterVotes: voter -> voted for
  clock,          \* Date.now(); NOW() of the database
  last,           \* the last call made on the store and what it returned
  listeners,      \* MockStore.listeners: the subscribed callbacks
  delivered,      \* per callback: the snapshots the last step called it with
  unsubFns,       \* the callbacks whose unsubscribe function was returned
  dbRoom,         \* the row of table rooms
  dbSubmissions,  \* the rows of table submissions, in insertion order
  dbActualSantas, \* the rows of table actual_santas
  dbPollVotes,    \* the rows of table poll_votes
  dbSweaterVotes, \* the rows of table sweater_votes
  cpc,            \* per client: where its running SupabaseStore call is
  cState,         \* per client: SupabaseStore.currentState
  cRet,           \* per client: the last call that returned
  supaLog,        \* submitGuess calls decided since submissions were deleted
  cListeners,     \* per client: SupabaseStore.listeners
  cDelivered,     \* per client and callback: snapshots of the last step
  cUnsubFns,      \* per client: callbacks whose unsubscribe was returned
  ptsOrder,       \* calculatePoints: roomState.openingOrder
  ptsSubs,        \* calculatePoints: the submissions, as fetched
  ptsSantas,      \* calculatePoints: actualSantas, round index -> name
  ptsPoints,      \* calculatePoints: points, null before the function runs
  ptsI,           \* calculatePoints: submissions handled so far
  tNow,           \* useTimer: Date.now() of the browser, in milliseconds
  tStartedAt,     \* useTimer: the startedAt prop of the last render
  tDurationSec,   \* useTimer: the durationSec prop of the last render
  timeLeft,       \* useTimer: the timeLeft state
  tInterval,      \* useTimer: startedAt and durationSec of the interval
  tEffect         \* useTimer: the effect of the last render is still to run

mockVars == <<roomState, activePlayers, submissions, actualSantas,
              pollVotes, sweaterVotes, clock, last, listeners, delivered,
              unsubFns>>

supaVars == <<dbRoom, dbSubmissions, dbActualSantas, dbPollVotes,
              dbSweaterVotes, cpc, cState, cRet, supaLog, cListeners,
              cDelivered, cUnsubFns>>

ptsVars == <<ptsOrder, ptsSubs, ptsSantas, ptsPoints, ptsI>>

timerVars == <<tNow, tStartedAt, tDurationSec, timeLeft, tInterval, tEffect>>

vars == <<mockVars, supaVars, ptsVars, timerVars>>

EmptyMap == [k \in {} |-> TRUE]
Put(m, k, v) == [x \in (DOMAIN m) \cup {k} |-> IF x = k THEN v ELSE m[x]]

InitialRoomState ==
  [openingOrder |-> << >>,
   currentIndex |-> 0,
   roundStartedAt |-> Null,
   durationSec |-> DefaultDurationSec,
   isStarted |-> FALSE,
   resultsUnlocked |-> FALSE,
   pollUnlocked |-> FALSE,
   sweaterPollUnlocked |-> FALSE]

Call(op, args, ret) == [op |-> op, args |-> args, ret |-> ret]

\* the callbacks that components subscribe
Callbacks == {1, 2}
\* no callback is called
NoCalls == [l \in Callbacks |-> << >>]

MockInit ==
  /\ roomState = InitialRoomState
  /\ activePlayers = << >>
  /\ submissions = EmptyMap
  /\ actualSantas = EmptyMap
  /\ pollVotes = EmptyMap
  /\ sweaterVotes = EmptyMap
  /\ clock = 1
  /\ last = Call("new", << >>, "void")
  /\ listeners = {}
  /\ delivered = NoCalls
  /\ unsubFns = {}

\* records held by the store, counted against MaxRecords
Records ==
  Cardinality(DOMAIN submissions) + Cardinality(DOMAIN actualSantas)
    + Cardinality(DOMAIN pollVotes) + Cardinality(DOMAIN sweaterVotes)

\* const state = this.getRoomState();
\* this.listeners.forEach((listener) => listener(state))
notifyListeners ==
  /\ delivered' = [l \in Callbacks |->
                     IF l \in listeners THEN <<roomState'>> ELSE << >>]
  /\ UNCHANGED <<listeners, unsubFns>>

\* the step calls no callback
Silent ==
  /\ delivered' = NoCalls
  /\ UNCHANGED <<listeners, unsubFns>>

subscribe(listener) ==
  /\ listeners' = listeners \cup {listener}
  /\ delivered' = [NoCalls EXCEPT ![listener] = <<roomState>>]
  /\ unsubFns' = unsubFns \cup {listener}
  /\ last' = Call("subscribe", <<listener>>, "void")
  /\ UNCHANGED <<roomState, activePlayers, submissions, actualSantas,
                 pollVotes, sweaterVotes, clock>>

\* mutant: the returned function empties the whole set
unsubscribe_clearsAll(listener) ==
  /\ listener \in unsubFns
  /\ listeners' = {}
  /\ delivered' = NoCalls
  /\ last' = Call("unsubscribe", <<listener>>, "void")
  /\ UNCHANGED <<roomState, activePlayers, submissions, actualSantas,
                 pollVotes, sweaterVotes, clock, unsubFns>>

\* the function subscribe(listener) returned: this.listeners.delete(listener)
unsubscribe(listener) ==
  /\ listener \in unsubFns
  /\ listeners' = listeners \ {listener}
  /\ delivered' = NoCalls
  /\ last' = Call("unsubscribe", <<listener>>, "void")
  /\ UNCHANGED <<roomState, activePlayers, submissions, actualSantas,
                 pollVotes, sweaterVotes, clock, unsubFns>>

\* time passes
Tick ==
  /\ clock < MaxClock
  /\ clock' = clock + 1
  /\ UNCHANGED <<roomState, activePlayers, submissions, actualSantas,
                 pollVotes, sweaterVotes, last>>
  /\ Silent

\* Set.add: appends the name unless the set has it
SetAdd(s, x) == IF x \in Range(s) THEN s ELSE Append(s, x)

registerPlayer(playerName) ==
  /\ activePlayers' = SetAdd(activePlayers, playerName)
  /\ last' = Call("registerPlayer", <<playerName>>, "void")
  /\ UNCHANGED <<roomState, submissions, actualSantas, pollVotes,
                 sweaterVotes, clock>>
  /\ Silent

\* Array.from(this.activePlayers)
getActivePlayers == activePlayers

\* mutant: the registered players are used only when there are several
playersArray_needsTwo ==
  IF Len(activePlayers) > 1 THEN activePlayers ELSE ALL_PLAYERS

\* the array handed to the shuffle
playersArray == IF Len(activePlayers) > 0 THEN activePlayers ELSE ALL_PLAYERS

\* mutant: starting a game also drops the stored submissions
startGame_clearsSubmissions ==
  /\ \E shuffled \in Permutations_(playersArray) :
       roomState' = [openingOrder |-> shuffled,
                     currentIndex |-> 0,
                     roundStartedAt |-> Some(clock),
                     durationSec |-> roomState.durationSec,
                     isStarted |-> TRUE,
                     resultsUnlocked |-> FALSE,
                     pollUnlocked |-> FALSE,
                     sweaterPollUnlocked |-> FALSE]
  /\ submissions' = EmptyMap
  /\ last' = Call("startGame", << >>, "void")
  /\ UNCHANGED <<activePlayers, actualSantas, pollVotes, sweaterVotes, clock>>
  /\ notifyListeners

\* [...playersArray].sort(() => Math.random() - 0.5): some reordering
startGame ==
  /\ \E shuffled \in Permutations_(playersArray) :
       roomState' = [openingOrder |-> shuffled,
                     currentIndex |-> 0,
                     roundStartedAt |-> Some(clock),
                     durationSec |-> roomState.durationSec,
                     isStarted |-> TRUE,
                     resultsUnlocked |-> FALSE,
                     pollUnlocked |-> FALSE,
                     sweaterPollUnlocked |-> FALSE]
  /\ last' = Call("startGame", << >>, "void")
  /\ UNCHANGED <<activePlayers, submissions, actualSantas, pollVotes,
                 sweaterVotes, clock>>
  /\ notifyListeners

\* mutant: the end-of-game test is off by one (> for >=)
nextRecipient_offByOne ==
  /\ IF ~roomState.isStarted
       THEN UNCHANGED roomState /\ Silent
       ELSE IF roomState.currentIndex > Len(roomState.openingOrder) - 1
         THEN UNCHANGED roomState /\ Silent
         ELSE /\ roomState' = [roomState EXCEPT
                                 !.currentIndex = roomState.currentIndex + 1,
                                 !.roundStartedAt = Some(clock)]
              /\ notifyListeners
  /\ last' = Call("nextRecipient", << >>, "void")
  /\ UNCHANGED <<activePlayers, submissions, actualSantas, pollVotes,
                 sweaterVotes, clock>>

\* mutant: at the last index the game wraps around to the first recipient
nextRecipient_wraps ==
  /\ IF ~roomState.isStarted
       THEN UNCHANGED roomState /\ Silent
       ELSE /\ roomState' = [roomState EXCEPT
                               !.currentIndex =
                                 IF roomState.currentIndex
                                      >= Len(roomState.openingOrder) - 1
                                   THEN 0 ELSE roomState.currentIndex + 1,
                               !.roundStartedAt = Some(clock)]
            /\ notifyListeners
  /\ last' = Call("nextRecipient", << >>, "void")
  /\ UNCHANGED <<activePlayers, submissions, actualSantas, pollVotes,
                 sweaterVotes, clock>>

nextRecipient ==
  /\ IF ~roomState.isStarted
       THEN UNCHANGED roomState /\ Silent
       ELSE IF roomState.currentIndex >= Len(roomState.openingOrder) - 1
         THEN UNCHANGED roomState /\ Silent
         ELSE /\ roomState' = [roomState EXCEPT
                                 !.currentIndex = roomState.currentIndex + 1,
                                 !.roundStartedAt = Some(clock)]
              /\ notifyListeners
  /\ last' = Call("nextRecipient", << >>, "void")
  /\ UNCHANGED <<activePlayers, submissions, actualSantas, pollVotes,
                 sweaterVotes, clock>>

setTimerDuration(seconds) ==
  /\ roomState' = [roomState EXCEPT !.durationSec = seconds]
  /\ last' = Call("setTimerDuration", <<seconds>>, "void")
  /\ UNCHANGED <<activePlayers, submissions, actualSantas, pollVotes,
                 sweaterVotes, clock>>
  /\ notifyListeners

\* mutant: the key leaves out the round index
SubmissionKey_playerOnly(playerName, roundIndex) == playerName

\* `${playerName}-${roundIndex}`
SubmissionKey(playerName, roundIndex) ==
  playerName \o "-" \o ToString(roundIndex)

submitGuess(playerName, roundIndex, guessedSantas, gameMode) ==
  LET key == SubmissionKey(playerName, roundIndex) IN
  /\ IF key \in DOMAIN submissions
       THEN /\ UNCHANGED submissions
            /\ last' = Call("submitGuess", <<playerName, roundIndex>>, FALSE)
       ELSE /\ Records < MaxRecords
            /\ submissions' =
                 Put(submissions, key,
                     [playerName |-> playerName,
                      roundIndex |-> roundIndex,
                      guessedSantaName |->
                        IF Len(guessedSantas) > 0 /\ guessedSantas[1] # ""
                          THEN guessedSantas[1] ELSE "",
                      guessedSantas |-> guessedSantas,
                      gameMode |-> gameMode])
            /\ last' = Call("submitGuess", <<playerName, roundIndex>>, TRUE)
  /\ UNCHANGED <<roomState, activePlayers, actualSantas, pollVotes,
                 sweaterVotes, clock>>
  /\ Silent

hasSubmitted(playerName, roundIndex) ==
  SubmissionKey(playerName, roundIndex) \in DOMAIN submissions

\* the stored submissions as getAllSubmissions returns them
getAllSubmissions ==
  {[player_name |-> submissions[k].playerName,
    round_index |-> submissions[k].roundIndex,
    guessed_santa_name |-> submissions[k].guessedSantaName,
    guessed_santas |-> submissions[k].guessedSantas,
    game_mode |-> submissions[k].gameMode] : k \in DOMAIN submissions}

\* openingOrder[currentIndex] ?? null
getCurrentRecipient ==
  IF ~roomState.isStarted \/ Len(roomState.openingOrder) = 0
    THEN Null
    ELSE IF roomState.currentIndex + 1 \in 1..Len(roomState.openingOrder)
      THEN Some(roomState.openingOrder[roomState.currentIndex + 1])
      ELSE Null

unlockResults ==
  /\ roomState' = [roomState EXCEPT !.resultsUnlocked = TRUE]
  /\ last' = Call("unlockResults", << >>, "void")
  /\ UNCHANGED <<activePlayers, submissions, actualSantas, pollVotes,
                 sweaterVotes, clock>>
  /\ notifyListeners

\* mutant: the new room state is built without the results gate
unlockPoll_dropsResults ==
  /\ roomState' = [roomState EXCEPT !.pollUnlocked = TRUE,
                                    !.resultsUnlocked = FALSE]
  /\ last' = Call("unlockPoll", << >>, "void")
  /\ UNCHANGED <<activePlayers, submissions, actualSantas, pollVotes,
                 sweaterVotes, clock>>
  /\ notifyListeners

unlockPoll ==
  /\ roomState' = [roomState EXCEPT !.pollUnlocked = TRUE]
  /\ last' = Call("unlockPoll", << >>, "void")
  /\ UNCHANGED <<activePlayers, submissions, actualSantas, pollVotes,
                 sweaterVotes, clock>>
  /\ notifyListeners

unlockSweaterPoll ==
  /\ roomState' = [roomState EXCEPT !.sweaterPollUnlocked = TRUE]
  /\ last' = Call("unlockSweaterPoll", << >>, "void")
  /\ UNCHANGED <<activePlayers, submissions, actualSantas, pollVotes,
                 sweaterVotes, clock>>
  /\ notifyListeners

setActualSanta(roundIndex, actualSantaName) ==
  /\ roundIndex \in DOMAIN actualSantas \/ Records < MaxRecords
  /\ actualSantas' = Put(actualSantas, roundIndex, actualSantaName)
  /\ last' = Call("setActualSanta", <<roundIndex, actualSantaName>>, "void")
  /\ UNCHANGED <<roomState, activePlayers, submissions, pollVotes,
                 sweaterVotes, clock>>
  /\ Silent

getActualSanta(roundIndex) ==
  IF roundIndex \in DOMAIN actualSantas
    THEN Some(actualSantas[roundIndex]) ELSE Null

\* mutant: a later vote of the same voter replaces the recorded one
submitPollVote_overwrites(voterName, votedFor) ==
  /\ voterName \in DOMAIN pollVotes \/ Records < MaxRecords
  /\ pollVotes' = Put(pollVotes, voterName, votedFor)
  /\ last' = Call("submitPollVote", <<voterName, votedFor>>, TRUE)
  /\ UNCHANGED <<roomState, activePlayers, submissions, actualSantas,
                 sweaterVotes, clock>>
  /\ Silent

submitPollVote(voterName, votedFor) ==
  /\ IF voterName \in DOMAIN pollVotes
       THEN /\ UNCHANGED pollVotes
            /\ last' = Call("submitPollVote", <<voterName, votedFor>>, FALSE)
       ELSE /\ Records < MaxRecords
            /\ pollVotes' = Put(pollVotes, voterName, votedFor)
            /\ last' = Call("submitPollVote", <<voterName, votedFor>>, TRUE)
  /\ UNCHANGED <<roomState, activePlayers, submissions, actualSantas,
                 sweaterVotes, clock>>
  /\ Silent

hasVoted(voterName) == voterName \in DOMAIN pollVotes

\* votes.forEach(votedFor => results[votedFor] = (results[votedFor] || 0) + 1)
\* over the votes of the given voters
RECURSIVE CountVotes(_, _)
CountVotes(votes, voters) ==
  IF voters = {} THEN EmptyMap
  ELSE LET v == CHOOSE x \in voters : TRUE
           results == CountVotes(votes, voters \ {v})
           votedFor == votes[v]
       IN Put(results, votedFor,
              (IF votedFor \in DOMAIN results THEN results[votedFor] ELSE 0)
                + 1)

getPollResults == CountVotes(pollVotes, DOMAIN pollVotes)

\* mutant: a sweater vote is stored with the gift-poll votes as well
submitSweaterVote_sharesTable(voterName, votedFor) ==
  /\ IF voterName \in DOMAIN sweaterVotes
       THEN /\ UNCHANGED <<sweaterVotes, pollVotes>>
            /\ last' = Call("submitSweaterVote", <<voterName, votedFor>>, FALSE)
       ELSE /\ Records < MaxRecords
            /\ sweaterVotes' = Put(sweaterVotes, voterName, votedFor)
            /\ pollVotes' = Put(pollVotes, voterName, votedFor)
            /\ last' = Call("submitSweaterVote", <<voterName, votedFor>>, TRUE)
  /\ UNCHANGED <<roomState, activePlayers, submissions, actualSantas, clock>>
  /\ Silent

submitSweaterVote(voterName, votedFor) ==
  /\ IF voterName \in DOMAIN sweaterVotes
       THEN /\ UNCHANGED sweaterVotes
            /\ last' = Call("submitSweaterVote", <<voterName, votedFor>>, FALSE)
       ELSE /\ Records < MaxRecords
            /\ sweaterVotes' = Put(sweaterVotes, voterName, votedFor)
            /\ last' = Call("submitSweaterVote", <<voterName, votedFor>>, TRUE)
  /\ UNCHANGED <<roomState, activePlayers, submissions, actualSantas,
                 pollVotes, clock>>
  /\ Silent

hasSweaterVoted(voterName) == voterName \in DOMAIN sweaterVotes

getSweaterPollResults == CountVotes(sweaterVotes, DOMAIN sweaterVotes)

reset ==
  /\ roomState' = [openingOrder |-> << >>,
                   currentIndex |-> 0,
                   roundStartedAt |-> Null,
                   durationSec |-> 90,
                   isStarted |-> FALSE,
                   resultsUnlocked |-> FALSE,
                   pollUnlocked |-> FALSE,
                   sweaterPollUnlocked |-> FALSE]
  /\ activePlayers' = << >>
  /\ submissions' = EmptyMap
  /\ actualSantas' = EmptyMap
  /\ pollVotes' = EmptyMap
  /\ sweaterVotes' = EmptyMap
  /\ last' = Call("reset", << >>, "void")
  /\ UNCHANGED clock
  /\ notifyListeners

(***************************************************************************)
(* calculatePoints of the results page: a loop over the submissions that   *)
(* adds to a name -> points record.                                        *)
(***************************************************************************)
\* how many submissions the function is given
MaxSubs == 2

\* no calculation is under way
PointsIdle ==
  /\ ptsOrder = << >>
  /\ ptsSubs = << >>
  /\ ptsSantas = EmptyMap
  /\ ptsPoints = Null
  /\ ptsI = 0

\* sub.guessed_santas || [sub.guessed_santa_name]
GuessesOf(sub) ==
  IF sub.guessed_santas # Null THEN sub.guessed_santas[1]
                               ELSE <<sub.guessed_santa_name>>

\* sub.game_mode || 'risk'
GameModeOf(sub) ==
  IF sub.game_mode # Null /\ sub.game_mode # Some("") THEN sub.game_mode[1]
                                                      ELSE "risk"

\* mutant: a round without a record borrows the record of round 0
ActualSantaOf_borrowsRoundZero(santas, roundIndex) ==
  IF roundIndex \in DOMAIN santas /\ santas[roundIndex] # ""
    THEN Some(santas[roundIndex])
    ELSE IF 0 \in DOMAIN santas /\ santas[0] # ""
      THEN Some(santas[0]) ELSE Null

\* actualSantas[sub.round_index], null when missing or empty (!actualSanta)
ActualSantaOf(santas, roundIndex) ==
  IF roundIndex \in DOMAIN santas /\ santas[roundIndex] # ""
    THEN Some(santas[roundIndex]) ELSE Null

\* mutant: only the first guess is compared
IsCorrect_firstGuessOnly(guesses, actualSanta) ==
  Len(guesses) > 0 /\ guesses[1] = actualSanta

\* guesses.includes(actualSanta)
IsCorrect(guesses, actualSanta) == actualSanta \in Range(guesses)

\* openingOrder[sub.round_index] === sub.player_name
IsRecipient(order, sub) ==
  /\ sub.round_index + 1 \in 1..Len(order)
  /\ order[sub.round_index + 1] = sub.player_name

PointsToAdd(order, sub) ==
  IF IsRecipient(order, sub)
    THEN IF GameModeOf(sub) = "risk" THEN 3 ELSE 1
    ELSE 1

\* points[name] || 0
PointsOf(points, name) == IF name \in DOMAIN points THEN points[name] ELSE 0

\* points = {}; openingOrder.forEach(player => points[player] = 0)
CalcInit ==
  /\ ptsPoints = Null
  /\ ptsPoints' = Some([n \in Range(ptsOrder) |-> 0])
  /\ UNCHANGED <<ptsOrder, ptsSubs, ptsSantas, ptsI>>

\* one round of submissions.forEach
CalcSubmission ==
  /\ ptsPoints # Null
  /\ ptsI < Len(ptsSubs)
  /\ LET sub == ptsSubs[ptsI + 1]
         actualSanta == ActualSantaOf(ptsSantas, sub.round_index)
         points == ptsPoints[1]
     IN ptsPoints' =
          IF actualSanta = Null
            THEN ptsPoints
            ELSE IF IsCorrect(GuessesOf(sub), actualSanta[1])
              THEN Some(Put(points, sub.player_name,
                            PointsOf(points, sub.player_name)
                              + PointsToAdd(ptsOrder, sub)))
              ELSE ptsPoints
  /\ ptsI' = ptsI + 1
  /\ UNCHANGED <<ptsOrder, ptsSubs, ptsSantas>>

\* the inputs calculatePoints is run on
PtsOrders == {<<"Bob">>, <<"Alice", "Bob">>, <<"Bob", "Alice", "Carol">>}
PtsSubmissions ==
  {[player_name |-> p, round_index |-> r, guessed_santa_name |-> g[1],
    guessed_santas |-> gs, game_mode |-> m] :
     p \in {"Alice", "Bob", "Carol"}, r \in 0..1,
     g \in {<<"Bob">>, <<"Carol", "Bob">>},
     gs \in {Null, Some(<<"Bob">>), Some(<<"Carol", "Bob">>)},
     m \in {Null, Some("risk"), Some("safe")}}
PtsRows ==
  {sub \in PtsSubmissions :
     sub.guessed_santas # Null =>
       sub.guessed_santas[1][1] = sub.guessed_santa_name}
PtsSantaNames == {"Bob", "Carol", ""}
PtsSantaMaps ==
  UNION {[rs -> PtsSantaNames] : rs \in SUBSET (0..1)}
\* at most one submission per (player, round): the store's uniqueness
PtsUnique(subs) ==
  \A i, j \in 1..Len(subs) :
     /\ subs[i].player_name = subs[j].player_name
     /\ subs[i].round_index = subs[j].round_index
     => i = j
PtsSubLists ==
  {subs \in UNION {[1..n -> PtsRows] : n \in 0..MaxSubs} : PtsUnique(subs)}

(***************************************************************************)
(* useTimer: the countdown hook.  A render with new props leaves the       *)
(* timeLeft state as it is; the effect runs after the render and either    *)
(* sets timeLeft (no startedAt) or replaces the interval, whose callback   *)
(* computes the remaining time from the values of that render.             *)
(***************************************************************************)
\* timeLeft <= 10: the low-time threshold, in seconds
LowTimeSec == 10
\* milliseconds per second
MsPerSec == 1000
\* how far the browser's clock moves in one step, in milliseconds
TimeStep == 500
\* largest value of the browser's clock, in milliseconds
MaxNow == 14000

Max(a, b) == IF a > b THEN a ELSE b

\* the props the hook is rendered with: roundStartedAt and durationSec of
\* the room state
TimerStarts == {Null, Some(1000), Some(1500)}
TimerDurations == {2, 11}

\* the hook is mounted on a room that has not started; its effect has run
TimerIdle ==
  /\ tNow = 0
  /\ tStartedAt = Null
  /\ tDurationSec = DefaultDurationSec
  /\ timeLeft = DefaultDurationSec
  /\ tInterval = Null
  /\ tEffect = FALSE

\* the first render: useState(durationSec), effect to run
TimerMount(startedAt, durationSec) ==
  /\ tStartedAt = startedAt
  /\ tDurationSec = durationSec
  /\ timeLeft = durationSec
  /\ tInterval = Null
  /\ tEffect = TRUE

\* a render with other props: the state is kept, the effect is scheduled
\* because [startedAt, durationSec] changed
TimerRender(startedAt, durationSec) ==
  /\ <<startedAt, durationSec>> # <<tStartedAt, tDurationSec>>
  /\ tStartedAt' = startedAt
  /\ tDurationSec' = durationSec
  /\ tEffect' = TRUE
  /\ UNCHANGED <<tNow, timeLeft, tInterval>>

\* the effect: the previous interval is cleared; without startedAt timeLeft
\* is set to durationSec, otherwise a new interval is set
TimerEffect ==
  /\ tEffect
  /\ tEffect' = FALSE
  /\ IF tStartedAt = Null \/ tStartedAt = Some(0)
       THEN /\ timeLeft' = tDurationSec
            /\ tInterval' = Null
       ELSE /\ tInterval' = Some(<<tStartedAt[1], tDurationSec>>)
            /\ UNCHANGED timeLeft
  /\ UNCHANGED <<tNow, tStartedAt, tDurationSec>>

\* Math.max(0, durationSec - Math.floor((Date.now() - startedAt) / 1000))
Remaining(now, startedAt, durationSec) ==
  Max(0, durationSec - ((now - startedAt) \div MsPerSec))

\* the interval's callback
TimerTick ==
  /\ tInterval # Null
  /\ timeLeft' = Remaining(tNow, tInterval[1][1], tInterval[1][2])
  /\ UNCHANGED <<tNow, tStartedAt, tDurationSec, tInterval, tEffect>>

\* the browser's clock moves on
TimeAdvance ==
  /\ tNow + TimeStep <= MaxNow
  /\ tNow' = tNow + TimeStep
  /\ UNCHANGED <<tStartedAt, tDurationSec, timeLeft, tInterval, tEffect>>

\* what the hook returns
isLowTime == timeLeft <= LowTimeSec /\ timeLeft > 0
isExpired == timeLeft = 0

(***************************************************************************)
(* SupabaseStore: the database tables, and per browser client the cached   *)
(* room state and the position of its running call.  Every await of a      *)
(* database request is one step.                                           *)
(***************************************************************************)
\* how many browser clients share the room
NumClients == 2
\* how many submitGuess calls are made between two deletions of submissions
MaxCalls == 3

Clients == 1..NumClients

\* the room row as initializeRoom inserts it, other columns at their defaults
FreshRoom ==
  [opening_order |-> << >>,
   current_index |-> 0,
   round_started_at |-> Null,
   duration_sec |-> 90,
   is_started |-> FALSE,
   active_players |-> << >>,
   results_unlocked |-> FALSE,
   poll_unlocked |-> FALSE,
   sweater_poll_unlocked |-> FALSE]

\* the room row as fetchRoomState turns it into a RoomState
ToRoomState(data) ==
  [openingOrder |-> data.opening_order,
   currentIndex |-> data.current_index,
   roundStartedAt |-> data.round_started_at,
   durationSec |-> IF data.duration_sec = 0 THEN 90 ELSE data.duration_sec,
   isStarted |-> data.is_started,
   resultsUnlocked |-> data.results_unlocked,
   pollUnlocked |-> data.poll_unlocked,
   sweaterPollUnlocked |-> data.sweater_poll_unlocked]

\* getRoomState of client c: the cached state, or the default one
SupaGetRoomState(c) ==
  IF cState[c] # Null THEN cState[c][1] ELSE InitialRoomState

\* the position of a client's call: the request it awaits and the locals
\* of the call
At(label, locals) == [at |-> label, loc |-> locals]
Idle == At("idle", << >>)

SupaInit ==
  /\ dbRoom = FreshRoom
  /\ dbSubmissions = << >>
  /\ dbActualSantas = << >>
  /\ dbPollVotes = << >>
  /\ dbSweaterVotes = << >>
  /\ cpc = [c \in Clients |-> Idle]
  /\ cState = [c \in Clients |-> Null]
  /\ cRet = [c \in Clients |-> Call("new", << >>, "void")]
  /\ supaLog = << >>
  /\ cListeners = [c \in Clients |-> {}]
  /\ cDelivered = [c \in Clients |-> NoCalls]
  /\ cUnsubFns = [c \in Clients |-> {}]

\* if (this.currentState)
\*   this.listeners.forEach((listener) => listener(this.currentState!))
SupaNotifyListeners(c) ==
  /\ cDelivered' =
       [d \in Clients |->
          [l \in Callbacks |->
             IF d = c /\ l \in cListeners[c] /\ cState'[c] # Null
               THEN <<cState'[c][1]>> ELSE << >>]]
  /\ UNCHANGED <<cListeners, cUnsubFns>>

\* the step calls no callback
SupaSilent ==
  /\ cDelivered' = [d \in Clients |-> NoCalls]
  /\ UNCHANGED <<cListeners, cUnsubFns>>

\* client c returns from its call
Return(c, op, args, ret) ==
  /\ cpc' = [cpc EXCEPT ![c] = Idle]
  /\ cRet' = [cRet EXCEPT ![c] = Call(op, args, ret)]

Goto(c, label, loc) == cpc' = [cpc EXCEPT ![c] = At(label, loc)]

\* submitGuess: the call sends one insert
SupaSubmitGuess(c, playerName, roundIndex, guessedSantas, gameMode) ==
  /\ cpc[c].at = "idle"
  /\ Len(supaLog)
       + Cardinality({d \in Clients : cpc[d].at = "submit_insert"}) < MaxCalls
  /\ Goto(c, "submit_insert",
          [player_name |-> playerName,
           round_index |-> roundIndex,
           guessed_santa_name |->
             IF Len(guessedSantas) > 0 /\ guessedSantas[1] # ""
               THEN guessedSantas[1] ELSE "",
           guessed_santas |-> guessedSantas,
           game_mode |-> gameMode])
  /\ UNCHANGED <<mockVars, dbRoom, dbSubmissions, dbActualSantas, dbPollVotes,
                 dbSweaterVotes, cState, cRet, supaLog>>
  /\ SupaSilent

\* mutant: table submissions without its unique constraint
SubmissionsInsert_noUnique(rows, row) ==
  [rows |-> Append(rows, row), error |-> "none"]

\* insert into submissions under unique(room_id, player_name, round_index):
\* the new table and the error code
SubmissionsInsert(rows, row) ==
  IF \E i \in 1..Len(rows) :
       /\ rows[i].player_name = row.player_name
       /\ rows[i].round_index = row.round_index
    THEN [rows |-> rows, error |-> "23505"]
    ELSE [rows |-> Append(rows, row), error |-> "none"]

\* the clients other than c whose insert for the same pair is in flight
InFlightWith(c) ==
  {d \in Clients \ {c} :
     /\ cpc[d].at = "submit_insert"
     /\ cpc[d].loc.player_name = cpc[c].loc.player_name
     /\ cpc[d].loc.round_index = cpc[c].loc.round_index}

Decided(c, ret, why) ==
  /\ supaLog' = Append(supaLog,
                       [client |-> c, row |-> cpc[c].loc, ret |-> ret,
                        why |-> why, concurrent |-> InFlightWith(c)])
  /\ Return(c, "submitGuess",
            <<cpc[c].loc.player_name, cpc[c].loc.round_index>>, ret)

\* the database runs the insert of client c, or the request fails on the
\* way; submitGuess returns
SubmitInsert(c) ==
  /\ cpc[c].at = "submit_insert"
  /\ \/ LET res == SubmissionsInsert(dbSubmissions, cpc[c].loc) IN
          /\ dbSubmissions' = res.rows
          /\ IF res.error = "23505"
               THEN Decided(c, FALSE, "conflict")
               ELSE Decided(c, TRUE, "inserted")
     \/ /\ UNCHANGED dbSubmissions
        /\ Decided(c, FALSE, "error")
  /\ UNCHANGED <<mockVars, dbRoom, dbActualSantas, dbPollVotes,
                 dbSweaterVotes, cState>>
  /\ SupaSilent

\* setTimerDuration: one update of the room row
SupaSetTimerDuration(c, seconds) ==
  /\ cpc[c].at = "idle"
  /\ Goto(c, "timer_update", <<seconds>>)
  /\ UNCHANGED <<mockVars, dbRoom, dbSubmissions, dbActualSantas, dbPollVotes,
                 dbSweaterVotes, cState, cRet, supaLog>>
  /\ SupaSilent

TimerUpdate(c) ==
  /\ cpc[c].at = "timer_update"
  /\ dbRoom' = [dbRoom EXCEPT !.duration_sec = cpc[c].loc[1]]
  /\ Return(c, "setTimerDuration", cpc[c].loc, "void")
  /\ UNCHANGED <<mockVars, dbSubmissions, dbActualSantas, dbPollVotes,
                 dbSweaterVotes, cState, supaLog>>
  /\ SupaSilent

\* reset: an update of the room row, then one delete per table
SupaReset(c) ==
  /\ cpc[c].at = "idle"
  /\ Goto(c, "reset_room", << >>)
  /\ UNCHANGED <<mockVars, dbRoom, dbSubmissions, dbActualSantas, dbPollVotes,
                 dbSweaterVotes, cState, cRet, supaLog>>
  /\ SupaSilent

ResetRoom(c) ==
  /\ cpc[c].at = "reset_room"
  /\ dbRoom' = [dbRoom EXCEPT !.opening_order = << >>,
                              !.current_index = 0,
                              !.round_started_at = Null,
                              !.is_started = FALSE,
                              !.active_players = << >>,
                              !.results_unlocked = FALSE,
                              !.poll_unlocked = FALSE,
                              !.sweater_poll_unlocked = FALSE]
  /\ Goto(c, "reset_submissions", << >>)
  /\ UNCHANGED <<mockVars, dbSubmissions, dbActualSantas, dbPollVotes,
                 dbSweaterVotes, cState, cRet, supaLog>>
  /\ SupaSilent

ResetSubmissions(c) ==
  /\ cpc[c].at = "reset_submissions"
  /\ dbSubmissions' = << >>
  /\ supaLog' = << >>
  /\ Goto(c, "reset_actual_santas", << >>)
  /\ UNCHANGED <<mockVars, dbRoom, dbActualSantas, dbPollVotes,
                 dbSweaterVotes, cState, cRet>>
  /\ SupaSilent

ResetActualSantas(c) ==
  /\ cpc[c].at = "reset_actual_santas"
  /\ dbActualSantas' = << >>
  /\ Goto(c, "reset_poll_votes", << >>)
  /\ UNCHANGED <<mockVars, dbRoom, dbSubmissions, dbPollVotes,
                 dbSweaterVotes, cState, cRet, supaLog>>
  /\ SupaSilent

ResetPollVotes(c) ==
  /\ cpc[c].at = "reset_poll_votes"
  /\ dbPollVotes' = << >>
  /\ Goto(c, "reset_sweater_votes", << >>)
  /\ UNCHANGED <<mockVars, dbRoom, dbSubmissions, dbActualSantas,
                 dbSweaterVotes, cState, cRet, supaLog>>
  /\ SupaSilent

ResetSweaterVotes(c) ==
  /\ cpc[c].at = "reset_sweater_votes"
  /\ dbSweaterVotes' = << >>
  /\ Return(c, "reset", << >>, "void")
  /\ UNCHANGED <<mockVars, dbRoom, dbSubmissions, dbActualSantas,
                 dbPollVotes, cState, supaLog>>
  /\ SupaSilent

\* registerPlayer: select active_players, then, unless the list read has
\* the name, update the column with the list read plus the name
SupaRegisterPlayer(c, playerName) ==
  /\ cpc[c].at = "idle"
  /\ Goto(c, "register_select", <<playerName>>)
  /\ UNCHANGED <<mockVars, dbRoom, dbSubmissions, dbActualSantas, dbPollVotes,
                 dbSweaterVotes, cState, cRet, supaLog>>
  /\ SupaSilent

RegisterSelect(c) ==
  /\ cpc[c].at = "register_select"
  /\ LET playerName == cpc[c].loc[1]
         activePlayers_ == dbRoom.active_players
     IN IF playerName \in Range(activePlayers_)
          THEN Return(c, "registerPlayer", <<playerName>>, "void")
          ELSE /\ Goto(c, "register_update", <<playerName, activePlayers_>>)
               /\ UNCHANGED cRet
  /\ UNCHANGED <<mockVars, dbRoom, dbSubmissions, dbActualSantas, dbPollVotes,
                 dbSweaterVotes, cState, supaLog>>
  /\ SupaSilent

RegisterUpdate(c) ==
  /\ cpc[c].at = "register_update"
  /\ dbRoom' = [dbRoom EXCEPT
                  !.active_players = Append(cpc[c].loc[2], cpc[c].loc[1])]
  /\ Return(c, "registerPlayer", <<cpc[c].loc[1]>>, "void")
  /\ UNCHANGED <<mockVars, dbSubmissions, dbActualSantas, dbPollVotes,
                 dbSweaterVotes, cState, supaLog>>
  /\ SupaSilent

\* getActivePlayers: select active_players
SupaGetActivePlayers == dbRoom.active_players

\* setActualSanta: one upsert
SupaSetActualSanta(c, roundIndex, actualSantaName) ==
  /\ cpc[c].at = "idle"
  /\ Goto(c, "santa_upsert", <<roundIndex, actualSantaName>>)
  /\ UNCHANGED <<mockVars, dbRoom, dbSubmissions, dbActualSantas, dbPollVotes,
                 dbSweaterVotes, cState, cRet, supaLog>>
  /\ SupaSilent

\* mutant: the upsert is a plain insert into a table without the constraint
ActualSantasUpsert_appends(rows, row) == Append(rows, row)

\* upsert into actual_santas with onConflict room_id,round_index: the row
\* of the round is updated when there is one, and inserted otherwise
ActualSantasUpsert(rows, row) ==
  IF \E i \in 1..Len(rows) : rows[i].round_index = row.round_index
    THEN [i \in 1..Len(rows) |->
            IF rows[i].round_index = row.round_index
              THEN [rows[i] EXCEPT
                      !.actual_santa_name = row.actual_santa_name]
              ELSE rows[i]]
    ELSE Append(rows, row)

\* the database runs the upsert, or the request fails; the result is not
\* looked at and setActualSanta returns
SantaUpsert(c) ==
  /\ cpc[c].at = "santa_upsert"
  /\ \/ dbActualSantas' =
          ActualSantasUpsert(dbActualSantas,
                             [round_index |-> cpc[c].loc[1],
                              actual_santa_name |-> cpc[c].loc[2]])
     \/ UNCHANGED dbActualSantas
  /\ Return(c, "setActualSanta", cpc[c].loc, "void")
  /\ UNCHANGED <<mockVars, dbRoom, dbSubmissions, dbPollVotes,
                 dbSweaterVotes, cState, supaLog>>
  /\ SupaSilent

\* getActualSanta: select ... where round_index = roundIndex, .single()
\* over the given rows of actual_santas
SelectActualSanta(rows, roundIndex) ==
  LET found == {i \in 1..Len(rows) : rows[i].round_index = roundIndex}
  IN IF Cardinality(found) = 1
       THEN Some(rows[CHOOSE i \in found : TRUE].actual_santa_name)
       ELSE Null

SupaGetActualSanta(roundIndex) ==
  SelectActualSanta(dbActualSantas, roundIndex)

\* startGame: read active_players, shuffle, call the server-side function
\* (or, when that returns an error, update the row with the client's time),
\* then fetch the room state
SupaStartGame(c) ==
  /\ cpc[c].at = "idle"
  /\ Goto(c, "start_select", << >>)
  /\ UNCHANGED <<mockVars, dbRoom, dbSubmissions, dbActualSantas, dbPollVotes,
                 dbSweaterVotes, cState, cRet, supaLog>>
  /\ SupaSilent

StartSelect(c) ==
  /\ cpc[c].at = "start_select"
  /\ LET playersToUse == IF Len(dbRoom.active_players) > 0
                           THEN dbRoom.active_players ELSE ALL_PLAYERS
     IN \E shuffled \in Permutations_(playersToUse) :
           Goto(c, "start_rpc", shuffled)
  /\ UNCHANGED <<mockVars, dbRoom, dbSubmissions, dbActualSantas, dbPollVotes,
                 dbSweaterVotes, cState, cRet, supaLog>>
  /\ SupaSilent

\* start_game_with_server_time, or its error
StartRpc(c) ==
  /\ cpc[c].at = "start_rpc"
  /\ \/ /\ dbRoom' = [dbRoom EXCEPT !.opening_order = cpc[c].loc,
                                    !.current_index = 0,
                                    !.round_started_at = Some(clock),
                                    !.is_started = TRUE]
        /\ Goto(c, "fetch_select", "startGame")
     \/ /\ UNCHANGED dbRoom
        /\ Goto(c, "start_fallback", cpc[c].loc)
  /\ UNCHANGED <<mockVars, dbSubmissions, dbActualSantas, dbPollVotes,
                 dbSweaterVotes, cState, cRet, supaLog>>
  /\ SupaSilent

\* the fallback update, stamped with new Date() of the client
StartFallback(c) ==
  /\ cpc[c].at = "start_fallback"
  /\ \E t \in 1..MaxClock :
       dbRoom' = [dbRoom EXCEPT !.opening_order = cpc[c].loc,
                                !.current_index = 0,
                                !.round_started_at = Some(t),
                                !.is_started = TRUE]
  /\ Goto(c, "fetch_select", "startGame")
  /\ UNCHANGED <<mockVars, dbSubmissions, dbActualSantas, dbPollVotes,
                 dbSweaterVotes, cState, cRet, supaLog>>
  /\ SupaSilent

\* fetchRoomState awaited by a call: the select, then the assignment
FetchSelect(c) ==
  /\ cpc[c].at = "fetch_select"
  /\ Goto(c, "fetch_apply", <<cpc[c].loc, dbRoom>>)
  /\ UNCHANGED <<mockVars, dbRoom, dbSubmissions, dbActualSantas, dbPollVotes,
                 dbSweaterVotes, cState, cRet, supaLog>>
  /\ SupaSilent

\* mutant: fetchRoomState that keeps the cached state when the row it
\* fetched is behind it
FetchApply_ordered(c) ==
  /\ cpc[c].at = "fetch_apply"
  /\ Return(c, cpc[c].loc[1], << >>, "void")
  /\ UNCHANGED <<mockVars, dbRoom, dbSubmissions, dbActualSantas, dbPollVotes,
                 dbSweaterVotes, supaLog>>
  /\ IF cpc[c].loc[2].current_index < SupaGetRoomState(c).currentIndex
       THEN UNCHANGED cState /\ SupaSilent
       ELSE /\ cState' = [cState EXCEPT
                            ![c] = Some(ToRoomState(cpc[c].loc[2]))]
            /\ SupaNotifyListeners(c)

FetchApply(c) ==
  /\ cpc[c].at = "fetch_apply"
  /\ cState' = [cState EXCEPT ![c] = Some(ToRoomState(cpc[c].loc[2]))]
  /\ Return(c, cpc[c].loc[1], << >>, "void")
  /\ UNCHANGED <<mockVars, dbRoom, dbSubmissions, dbActualSantas, dbPollVotes,
                 dbSweaterVotes, supaLog>>
  /\ SupaNotifyListeners(c)

\* a realtime event of a change of the room row that client c has not
\* applied yet: the handler stores payload.new and notifies
Push(c) ==
  /\ SupaGetRoomState(c) # ToRoomState(dbRoom)
  /\ cState' = [cState EXCEPT ![c] = Some(ToRoomState(dbRoom))]
  /\ SupaNotifyListeners(c)
  /\ UNCHANGED <<mockVars, dbRoom, dbSubmissions, dbActualSantas, dbPollVotes,
                 dbSweaterVotes, cpc, cRet, supaLog>>

\* subscribe: the callback is called with the cached state when there is
\* one; otherwise fetchRoomState is started and subscribe returns
SupaSubscribe(c, listener) ==
  /\ cListeners' = [cListeners EXCEPT ![c] = @ \cup {listener}]
  /\ cUnsubFns' = [cUnsubFns EXCEPT ![c] = @ \cup {listener}]
  /\ cRet' = [cRet EXCEPT ![c] = Call("subscribe", <<listener>>, "void")]
  /\ IF cState[c] # Null
       THEN /\ cDelivered' = [d \in Clients |->
                                IF d = c
                                  THEN [NoCalls EXCEPT
                                          ![listener] = <<cState[c][1]>>]
                                  ELSE NoCalls]
            /\ UNCHANGED cpc
       ELSE /\ cpc[c].at = "idle"
            /\ cDelivered' = [d \in Clients |-> NoCalls]
            /\ Goto(c, "fetch_select", "fetchRoomState")
  /\ UNCHANGED <<mockVars, dbRoom, dbSubmissions, dbActualSantas, dbPollVotes,
                 dbSweaterVotes, cState, supaLog>>

\* the function subscribe(listener) returned: this.listeners.delete(listener)
SupaUnsubscribe(c, listener) ==
  /\ listener \in cUnsubFns[c]
  /\ cListeners' = [cListeners EXCEPT ![c] = @ \ {listener}]
  /\ cRet' = [cRet EXCEPT ![c] = Call("unsubscribe", <<listener>>, "void")]
  /\ cDelivered' = [d \in Clients |-> NoCalls]
  /\ UNCHANGED <<mockVars, dbRoom, dbSubmissions, dbActualSantas, dbPollVotes,
                 dbSweaterVotes, cpc, cState, supaLog, cUnsubFns>>

\* mutant: a polling timer whose callback does not fetch
Poll_skips(c) ==
  /\ cpc[c].at = "idle"
  /\ Return(c, "poll", << >>, "void")
  /\ UNCHANGED <<mockVars, dbRoom, dbSubmissions, dbActualSantas, dbPollVotes,
                 dbSweaterVotes, cState, supaLog>>
  /\ SupaSilent

\* the polling timer of an idle client: fetchRoomState
Poll(c) ==
  /\ cpc[c].at = "idle"
  /\ Goto(c, "fetch_select", "poll")
  /\ UNCHANGED <<mockVars, dbRoom, dbSubmissions, dbActualSantas, dbPollVotes,
                 dbSweaterVotes, cState, cRet, supaLog>>
  /\ SupaSilent

\* mutant: a failed fetch that forgets the cached state
FetchFail_dropsState(c) ==
  /\ cpc[c].at = "fetch_select"
  /\ Return(c, cpc[c].loc, << >>, "void")
  /\ cState' = [cState EXCEPT ![c] = Null]
  /\ UNCHANGED <<mockVars, dbRoom, dbSubmissions, dbActualSantas, dbPollVotes,
                 dbSweaterVotes, supaLog>>
  /\ SupaSilent

\* the select of fetchRoomState returns an error: the catch block logs it
\* and fetchRoomState returns, so the awaiting call returns too
FetchFail(c) ==
  /\ cpc[c].at = "fetch_select"
  /\ Return(c, cpc[c].loc, << >>, "void")
  /\ UNCHANGED <<mockVars, dbRoom, dbSubmissions, dbActualSantas, dbPollVotes,
                 dbSweaterVotes, cState, supaLog>>
  /\ SupaSilent

\* nextRecipient: the two early returns are decided on the cached state;
\* otherwise the server-side function is called
SupaNextRecipient(c) ==
  /\ cpc[c].at = "idle"
  /\ LET state == SupaGetRoomState(c) IN
       IF \/ ~state.isStarted
          \/ state.currentIndex >= Len(state.openingOrder) - 1
         THEN Return(c, "nextRecipient", << >>, "void")
         ELSE /\ Goto(c, "next_rpc", <<state.currentIndex>>)
              /\ UNCHANGED cRet
  /\ UNCHANGED <<mockVars, dbRoom, dbSubmissions, dbActualSantas, dbPollVotes,
                 dbSweaterVotes, cState, supaLog>>
  /\ SupaSilent

\* next_round_with_server_time: current_index = current_index + 1 and
\* round_started_at = NOW(); or the error of the call
NextRpc(c) ==
  /\ cpc[c].at = "next_rpc"
  /\ \/ /\ dbRoom' = [dbRoom EXCEPT !.current_index = @ + 1,
                                    !.round_started_at = Some(clock)]
        /\ Goto(c, "fetch_select", "nextRecipient")
     \/ /\ UNCHANGED dbRoom
        /\ Goto(c, "next_fallback", cpc[c].loc)
  /\ UNCHANGED <<mockVars, dbSubmissions, dbActualSantas, dbPollVotes,
                 dbSweaterVotes, cState, cRet, supaLog>>
  /\ SupaSilent

\* the fallback update: the index read from the cached state plus one,
\* stamped with new Date() of the client
NextFallback(c) ==
  /\ cpc[c].at = "next_fallback"
  /\ \E t \in 1..MaxClock :
       dbRoom' = [dbRoom EXCEPT !.current_index = cpc[c].loc[1] + 1,
                                !.round_started_at = Some(t)]
  /\ Goto(c, "fetch_select", "nextRecipient")
  /\ UNCHANGED <<mockVars, dbSubmissions, dbActualSantas, dbPollVotes,
                 dbSweaterVotes, cState, cRet, supaLog>>
  /\ SupaSilent

\* unlockPoll: one update of the room row, then fetchRoomState
SupaUnlockPoll(c) ==
  /\ cpc[c].at = "idle"
  /\ Goto(c, "unlock_poll_update", << >>)
  /\ UNCHANGED <<mockVars, dbRoom, dbSubmissions, dbActualSantas, dbPollVotes,
                 dbSweaterVotes, cState, cRet, supaLog>>
  /\ SupaSilent

UnlockPollUpdate(c) ==
  /\ cpc[c].at = "unlock_poll_update"
  /\ dbRoom' = [dbRoom EXCEPT !.poll_unlocked = TRUE]
  /\ Goto(c, "fetch_select", "unlockPoll")
  /\ UNCHANGED <<mockVars, dbSubmissions, dbActualSantas, dbPollVotes,
                 dbSweaterVotes, cState, cRet, supaLog>>
  /\ SupaSilent

\* one call on the store, its arguments drawn from the given input sets
MockNext(regNames, durations, guessArgs, santaArgs, voteArgs) ==
  \/ Tick /\ UNCHANGED <<supaVars, ptsVars, timerVars>>
  \/ (\E n \in regNames : registerPlayer(n)) /\ UNCHANGED <<supaVars, ptsVars, timerVars>>
  \/ (startGame) /\ UNCHANGED <<supaVars, ptsVars, timerVars>>
  \/ (nextRecipient) /\ UNCHANGED <<supaVars, ptsVars, timerVars>>
  \/ (\E s \in durations : setTimerDuration(s)) /\ UNCHANGED <<supaVars, ptsVars, timerVars>>
  \/ (\E a \in guessArgs : submitGuess(a[1], a[2], a[3], a[4])) /\ UNCHANGED <<supaVars, ptsVars, timerVars>>
  \/ (unlockResults) /\ UNCHANGED <<supaVars, ptsVars, timerVars>>
  \/ (unlockPoll) /\ UNCHANGED <<supaVars, ptsVars, timerVars>>
  \/ (unlockSweaterPoll) /\ UNCHANGED <<supaVars, ptsVars, timerVars>>
  \/ (\E a \in santaArgs : setActualSanta(a[1], a[2])) /\ UNCHANGED <<supaVars, ptsVars, timerVars>>
  \/ (\E a \in voteArgs : submitPollVote(a[1], a[2])) /\ UNCHANGED <<supaVars, ptsVars, timerVars>>
  \/ (\E a \in voteArgs : submitSweaterVote(a[1], a[2])) /\ UNCHANGED <<supaVars, ptsVars, timerVars>>
  \/ (reset) /\ UNCHANGED <<supaVars, ptsVars, timerVars>>

(***************************************************************************)
(* Spec: the MockStore under every operation, with the inputs that decide  *)
(* the room state (registrations, durations) drawn widely and one          *)
(* guess, one actual Santa and one vote.                                   *)
(***************************************************************************)
Init == MockInit /\ SupaInit /\ PointsIdle /\ TimerIdle
Next ==
  MockNext(RegNames, Durations,
           {<<"Alice", 0, <<"Bob">>, "risk">>},
           {<<0, "Bob">>},
           {<<"Alice", "Bob">>})
Spec == Init /\ [][Next]_vars

(***************************************************************************)
(* SpecSubmit: the MockStore under every operation, with the guesses drawn *)
(* widely and one registration and one duration.                           *)
(***************************************************************************)
SubmitNames == {"Alice", "Bob"}
NextSubmit ==
  MockNext({"Carol"}, {DefaultDurationSec},
           SubmitNames \X Rounds \X GuessLists \X GameModes,
           {<<0, "Bob">>},
           {<<"Alice", "Bob">>})
SpecSubmit == Init /\ [][NextSubmit]_vars

(***************************************************************************)
(* SpecPoll: the MockStore under every operation, with the votes drawn     *)
(* widely and one registration, one duration, one guess and one actual     *)
(* Santa.                                                                  *)
(***************************************************************************)
PollVoters == {"Alice", "Bob"}
PollChoices == {"Bob", "Carol"}
NextPoll ==
  MockNext({"Carol"}, {DefaultDurationSec},
           {<<"Alice", 0, <<"Bob">>, "risk">>},
           {<<0, "Bob">>},
           PollVoters \X PollChoices)
SpecPoll == Init /\ [][NextPoll]_vars

(***************************************************************************)
(* SpecSub: components subscribe to and unsubscribe from the MockStore and *)
(* the SupabaseStore of one browser while the timer duration is changed,   *)
(* the MockStore is reset and the SupabaseStore polls and receives         *)
(* realtime events.                                                        *)
(***************************************************************************)
Hosts == {1}
NextSub ==
  \/ (\E l \in Callbacks : subscribe(l)) /\ UNCHANGED <<supaVars, ptsVars, timerVars>>
  \/ (\E l \in Callbacks : unsubscribe(l)) /\ UNCHANGED <<supaVars, ptsVars, timerVars>>
  \/ (\E d \in Durations : setTimerDuration(d))
       /\ UNCHANGED <<supaVars, ptsVars, timerVars>>
  \/ reset /\ UNCHANGED <<supaVars, ptsVars, timerVars>>
  \/ (\E c \in Hosts, l \in Callbacks : SupaSubscribe(c, l))
       /\ UNCHANGED <<ptsVars, timerVars>>
  \/ (\E c \in Hosts, l \in Callbacks : SupaUnsubscribe(c, l))
       /\ UNCHANGED <<ptsVars, timerVars>>
  \/ (\E c \in Hosts, d \in Durations : SupaSetTimerDuration(c, d))
       /\ UNCHANGED <<ptsVars, timerVars>>
  \/ (\E c \in Hosts : TimerUpdate(c)) /\ UNCHANGED <<ptsVars, timerVars>>
  \/ (\E c \in Hosts : Poll(c)) /\ UNCHANGED <<ptsVars, timerVars>>
  \/ (\E c \in Hosts : FetchSelect(c)) /\ UNCHANGED <<ptsVars, timerVars>>
  \/ (\E c \in Hosts : FetchApply(c)) /\ UNCHANGED <<ptsVars, timerVars>>
  \/ (\E c \in Hosts : Push(c)) /\ UNCHANGED <<ptsVars, timerVars>>
SpecSub == Init /\ [][NextSub]_vars

(***************************************************************************)
(* SpecSanta: the host declares and corrects actual Santas in the          *)
(* MockStore and through the SupabaseStore, between guesses, game starts   *)
(* and resets.                                                             *)
(***************************************************************************)
SantaNames == {"Bob", "Carol"}
NextSanta ==
  \/ (\E r \in Rounds, n \in SantaNames : setActualSanta(r, n))
       /\ UNCHANGED <<supaVars, ptsVars, timerVars>>
  \/ submitGuess("Alice", 0, <<"Bob">>, "risk")
       /\ UNCHANGED <<supaVars, ptsVars, timerVars>>
  \/ startGame /\ UNCHANGED <<supaVars, ptsVars, timerVars>>
  \/ reset /\ UNCHANGED <<supaVars, ptsVars, timerVars>>
  \/ (\E c \in Hosts, r \in Rounds, n \in SantaNames :
        SupaSetActualSanta(c, r, n)) /\ UNCHANGED <<ptsVars, timerVars>>
  \/ (\E c \in Hosts : SantaUpsert(c)) /\ UNCHANGED <<ptsVars, timerVars>>
  \/ (\E c \in Hosts : SupaReset(c)) /\ UNCHANGED <<ptsVars, timerVars>>
  \/ (\E c \in Hosts : ResetRoom(c)) /\ UNCHANGED <<ptsVars, timerVars>>
  \/ (\E c \in Hosts : ResetSubmissions(c)) /\ UNCHANGED <<ptsVars, timerVars>>
  \/ (\E c \in Hosts : ResetActualSantas(c)) /\ UNCHANGED <<ptsVars, timerVars>>
  \/ (\E c \in Hosts : ResetPollVotes(c)) /\ UNCHANGED <<ptsVars, timerVars>>
  \/ (\E c \in Hosts : ResetSweaterVotes(c)) /\ UNCHANGED <<ptsVars, timerVars>>
SpecSanta == Init /\ [][NextSanta]_vars

(***************************************************************************)
(* SpecRegister: players register in the MockStore and, from several       *)
(* browsers, through the SupabaseStore.                                    *)
(***************************************************************************)
NextRegister ==
  \/ (\E n \in RegNames : registerPlayer(n))
       /\ UNCHANGED <<supaVars, ptsVars, timerVars>>
  \/ startGame /\ UNCHANGED <<supaVars, ptsVars, timerVars>>
  \/ reset /\ UNCHANGED <<supaVars, ptsVars, timerVars>>
  \/ (\E c \in Clients, n \in RegNames : SupaRegisterPlayer(c, n))
       /\ UNCHANGED <<ptsVars, timerVars>>
  \/ (\E c \in Clients : RegisterSelect(c)) /\ UNCHANGED <<ptsVars, timerVars>>
  \/ (\E c \in Clients : RegisterUpdate(c)) /\ UNCHANGED <<ptsVars, timerVars>>
SpecRegister == Init /\ [][NextRegister]_vars

(***************************************************************************)
(* SpecTimer: useTimer mounted with every props of the bounded sets, at a  *)
(* clock before, at or after startedAt, re-rendered with other props while *)
(* time passes.                                                            *)
(***************************************************************************)
InitTimer ==
  /\ MockInit
  /\ SupaInit
  /\ PointsIdle
  /\ tNow \in {0, 1000}
  /\ \E s \in TimerStarts, d \in TimerDurations : TimerMount(s, d)

NextTimer ==
  \/ (\E s \in TimerStarts, d \in TimerDurations : TimerRender(s, d))
       /\ UNCHANGED <<mockVars, supaVars, ptsVars>>
  \/ TimerEffect /\ UNCHANGED <<mockVars, supaVars, ptsVars>>
  \/ TimerTick /\ UNCHANGED <<mockVars, supaVars, ptsVars>>
  \/ TimeAdvance /\ UNCHANGED <<mockVars, supaVars, ptsVars>>
SpecTimer == InitTimer /\ [][NextTimer]_vars

(***************************************************************************)
(* SpecPoints: calculatePoints run on every input of the bounded sets.     *)
(***************************************************************************)
InitPoints ==
  /\ MockInit
  /\ SupaInit
  /\ TimerIdle
  /\ ptsOrder \in PtsOrders
  /\ ptsSubs \in PtsSubLists
  /\ ptsSantas \in PtsSantaMaps
  /\ ptsPoints = Null
  /\ ptsI = 0

NextPoints ==
  \/ CalcInit /\ UNCHANGED <<mockVars, supaVars, timerVars>>
  \/ CalcSubmission /\ UNCHANGED <<mockVars, supaVars, timerVars>>
SpecPoints == InitPoints /\ [][NextPoints]_vars


(***************************************************************************)
(* SpecRace: clients submit guesses through the SupabaseStore while a      *)
(* reset may delete them.                                                  *)
(***************************************************************************)
RaceNames == {"Alice", "Bob"}
NextRace ==
  \/ (\E c \in Clients, p \in RaceNames, g \in GuessLists :
        SupaSubmitGuess(c, p, 0, g, "risk")) /\ UNCHANGED <<ptsVars, timerVars>>
  \/ (\E c \in Clients : SubmitInsert(c)) /\ UNCHANGED <<ptsVars, timerVars>>
  \/ (\E c \in Clients : SupaReset(c)) /\ UNCHANGED <<ptsVars, timerVars>>
  \/ (\E c \in Clients : ResetRoom(c)) /\ UNCHANGED <<ptsVars, timerVars>>
  \/ (\E c \in Clients : ResetSubmissions(c)) /\ UNCHANGED <<ptsVars, timerVars>>
  \/ (\E c \in Clients : ResetActualSantas(c)) /\ UNCHANGED <<ptsVars, timerVars>>
  \/ (\E c \in Clients : ResetPollVotes(c)) /\ UNCHANGED <<ptsVars, timerVars>>
  \/ (\E c \in Clients : ResetSweaterVotes(c)) /\ UNCHANGED <<ptsVars, timerVars>>
SpecRace == Init /\ [][NextRace]_vars

(***************************************************************************)
(* SpecSupa: the host's client starts the game, sets the timer and resets  *)
(* through the SupabaseStore, and every client polls.                      *)
(***************************************************************************)
NextSupa ==
  \/ Tick /\ UNCHANGED <<supaVars, ptsVars, timerVars>>
  \/ (\E c \in Hosts : SupaStartGame(c)) /\ UNCHANGED <<ptsVars, timerVars>>
  \/ (\E c \in Clients : StartSelect(c)) /\ UNCHANGED <<ptsVars, timerVars>>
  \/ (\E c \in Clients : StartRpc(c)) /\ UNCHANGED <<ptsVars, timerVars>>
  \/ (\E c \in Clients : StartFallback(c)) /\ UNCHANGED <<ptsVars, timerVars>>
  \/ (\E c \in Clients : FetchSelect(c)) /\ UNCHANGED <<ptsVars, timerVars>>
  \/ (\E c \in Clients : FetchApply(c)) /\ UNCHANGED <<ptsVars, timerVars>>
  \/ (\E c \in Clients : Poll(c)) /\ UNCHANGED <<ptsVars, timerVars>>
  \/ (\E c \in Hosts, s \in Durations : SupaSetTimerDuration(c, s))
       /\ UNCHANGED <<ptsVars, timerVars>>
  \/ (\E c \in Clients : TimerUpdate(c)) /\ UNCHANGED <<ptsVars, timerVars>>
  \/ (\E c \in Hosts : SupaReset(c)) /\ UNCHANGED <<ptsVars, timerVars>>
  \/ (\E c \in Clients : ResetRoom(c)) /\ UNCHANGED <<ptsVars, timerVars>>
  \/ (\E c \in Clients : ResetSubmissions(c)) /\ UNCHANGED <<ptsVars, timerVars>>
  \/ (\E c \in Clients : ResetActualSantas(c)) /\ UNCHANGED <<ptsVars, timerVars>>
  \/ (\E c \in Clients : ResetPollVotes(c)) /\ UNCHANGED <<ptsVars, timerVars>>
  \/ (\E c \in Clients : ResetSweaterVotes(c)) /\ UNCHANGED <<ptsVars, timerVars>>
SpecSupa == Init /\ [][NextSupa]_vars


(***************************************************************************)
(* SpecSync: a game has been started and every client has fetched it; the  *)
(* clients advance the round through the SupabaseStore, poll and receive   *)
(* realtime events, and a component of each client subscribes; fetches may *)
(* fail.                                                                   *)
(***************************************************************************)
\* the room row once startGame has run on the default players
StartedRoom ==
  [FreshRoom EXCEPT !.opening_order = ALL_PLAYERS,
                    !.current_index = 0,
                    !.round_started_at = Some(1),
                    !.is_started = TRUE]

InitSync ==
  /\ MockInit
  /\ PointsIdle
  /\ TimerIdle
  /\ dbRoom = StartedRoom
  /\ dbSubmissions = << >>
  /\ dbActualSantas = << >>
  /\ dbPollVotes = << >>
  /\ dbSweaterVotes = << >>
  /\ cpc = [c \in Clients |-> Idle]
  /\ cState = [c \in Clients |-> Some(ToRoomState(StartedRoom))]
  /\ cRet = [c \in Clients |-> Call("startGame", << >>, "void")]
  /\ supaLog = << >>
  /\ cListeners = [c \in Clients |-> {}]
  /\ cDelivered = [c \in Clients |-> NoCalls]
  /\ cUnsubFns = [c \in Clients |-> {}]

\* the clients that only watch the game
Watchers == Clients \ Hosts

NextSync ==
  \/ (\E c \in Hosts : SupaNextRecipient(c))
       /\ UNCHANGED <<ptsVars, timerVars>>
  \/ (\E c \in Hosts : NextRpc(c)) /\ UNCHANGED <<ptsVars, timerVars>>
  \/ (\E c \in Hosts : NextFallback(c)) /\ UNCHANGED <<ptsVars, timerVars>>
  \/ (\E c \in Watchers : Poll(c)) /\ UNCHANGED <<ptsVars, timerVars>>
  \/ (\E c \in Clients : FetchSelect(c)) /\ UNCHANGED <<ptsVars, timerVars>>
  \/ (\E c \in Watchers : FetchFail(c)) /\ UNCHANGED <<ptsVars, timerVars>>
  \/ (\E c \in Clients : FetchApply(c)) /\ UNCHANGED <<ptsVars, timerVars>>
  \/ (\E c \in Watchers : Push(c)) /\ UNCHANGED <<ptsVars, timerVars>>
  \/ (\E c \in Watchers : SupaSubscribe(c, 1))
       /\ UNCHANGED <<ptsVars, timerVars>>
SpecSync == InitSync /\ [][NextSync]_vars

(***************************************************************************)
(* SpecNext: a game has been started and every client has fetched it; the  *)
(* host page is open in every client and each advances the round.          *)
(***************************************************************************)
NextNext ==
  \/ (\E c \in Clients : SupaNextRecipient(c))
       /\ UNCHANGED <<ptsVars, timerVars>>
  \/ (\E c \in Clients : NextRpc(c)) /\ UNCHANGED <<ptsVars, timerVars>>
  \/ (\E c \in Clients : NextFallback(c)) /\ UNCHANGED <<ptsVars, timerVars>>
  \/ (\E c \in Clients : FetchSelect(c)) /\ UNCHANGED <<ptsVars, timerVars>>
  \/ (\E c \in Clients : FetchApply(c)) /\ UNCHANGED <<ptsVars, timerVars>>
SpecNext == InitSync /\ [][NextNext]_vars


(***************************************************************************)
(* SpecPollLive: a game has been started; the host advances the round,     *)
(* every realtime event is lost and every client polls.  The interval      *)
(* timer keeps firing, a request that was sent is answered, and the select *)
(* of fetchRoomState, which may fail, succeeds again and again.            *)
(***************************************************************************)
NextPollLive ==
  \/ (\E c \in Hosts : SupaNextRecipient(c))
       /\ UNCHANGED <<ptsVars, timerVars>>
  \/ (\E c \in Hosts : NextRpc(c)) /\ UNCHANGED <<ptsVars, timerVars>>
  \/ (\E c \in Hosts : NextFallback(c)) /\ UNCHANGED <<ptsVars, timerVars>>
  \/ (\E c \in Clients : Poll(c)) /\ UNCHANGED <<ptsVars, timerVars>>
  \/ (\E c \in Clients : FetchSelect(c)) /\ UNCHANGED <<ptsVars, timerVars>>
  \/ (\E c \in Watchers : FetchFail(c)) /\ UNCHANGED <<ptsVars, timerVars>>
  \/ (\E c \in Clients : FetchApply(c)) /\ UNCHANGED <<ptsVars, timerVars>>

PollFairness ==
  \A c \in Clients :
    /\ WF_vars(Poll(c) /\ UNCHANGED <<ptsVars, timerVars>>)
    /\ SF_vars(FetchSelect(c) /\ UNCHANGED <<ptsVars, timerVars>>)
    /\ WF_vars(FetchApply(c) /\ UNCHANGED <<ptsVars, timerVars>>)
    /\ WF_vars(NextRpc(c) /\ UNCHANGED <<ptsVars, timerVars>>)
    /\ WF_vars(NextFallback(c) /\ UNCHANGED <<ptsVars, timerVars>>)

SpecPollLive == InitSync /\ [][NextPollLive]_vars /\ PollFairness

(***************************************************************************)
(* SpecReset: the host's client starts the game and resets it through the  *)
(* SupabaseStore while a player's client submits a guess and polls.        *)
(***************************************************************************)
NextReset ==
  \/ (\E c \in Hosts : SupaStartGame(c)) /\ UNCHANGED <<ptsVars, timerVars>>
  \/ (\E c \in Hosts : StartSelect(c)) /\ UNCHANGED <<ptsVars, timerVars>>
  \/ (\E c \in Hosts : StartRpc(c)) /\ UNCHANGED <<ptsVars, timerVars>>
  \/ (\E c \in Hosts : StartFallback(c)) /\ UNCHANGED <<ptsVars, timerVars>>
  \/ (\E c \in Hosts : SupaReset(c)) /\ UNCHANGED <<ptsVars, timerVars>>
  \/ (\E c \in Hosts : ResetRoom(c)) /\ UNCHANGED <<ptsVars, timerVars>>
  \/ (\E c \in Hosts : ResetSubmissions(c)) /\ UNCHANGED <<ptsVars, timerVars>>
  \/ (\E c \in Hosts : ResetActualSantas(c)) /\ UNCHANGED <<ptsVars, timerVars>>
  \/ (\E c \in Hosts : ResetPollVotes(c)) /\ UNCHANGED <<ptsVars, timerVars>>
  \/ (\E c \in Hosts : ResetSweaterVotes(c)) /\ UNCHANGED <<ptsVars, timerVars>>
  \/ (\E c \in Watchers : SupaSubmitGuess(c, "Alice", 0, <<"Bob">>, "risk"))
       /\ UNCHANGED <<ptsVars, timerVars>>
  \/ (\E c \in Watchers : SubmitInsert(c)) /\ UNCHANGED <<ptsVars, timerVars>>
  \/ (\E c \in Watchers : Poll(c)) /\ UNCHANGED <<ptsVars, timerVars>>
  \/ (\E c \in Clients : FetchSelect(c)) /\ UNCHANGED <<ptsVars, timerVars>>
  \/ (\E c \in Clients : FetchApply(c)) /\ UNCHANGED <<ptsVars, timerVars>>
SpecReset == Init /\ [][NextReset]_vars

(***************************************************************************)
(* SpecStart: the host unlocks the poll and starts the game, in the        *)
(* MockStore and through the SupabaseStore.                                *)
(***************************************************************************)
NextStart ==
  \/ startGame /\ UNCHANGED <<supaVars, ptsVars, timerVars>>
  \/ unlockPoll /\ UNCHANGED <<supaVars, ptsVars, timerVars>>
  \/ (\E c \in Hosts : SupaUnlockPoll(c)) /\ UNCHANGED <<ptsVars, timerVars>>
  \/ (\E c \in Hosts : UnlockPollUpdate(c)) /\ UNCHANGED <<ptsVars, timerVars>>
  \/ (\E c \in Hosts : SupaStartGame(c)) /\ UNCHANGED <<ptsVars, timerVars>>
  \/ (\E c \in Hosts : StartSelect(c)) /\ UNCHANGED <<ptsVars, timerVars>>
  \/ (\E c \in Hosts : StartRpc(c)) /\ UNCHANGED <<ptsVars, timerVars>>
  \/ (\E c \in Hosts : StartFallback(c)) /\ UNCHANGED <<ptsVars, timerVars>>
  \/ (\E c \in Hosts : FetchSelect(c)) /\ UNCHANGED <<ptsVars, timerVars>>
  \/ (\E c \in Hosts : FetchApply(c)) /\ UNCHANGED <<ptsVars, timerVars>>
SpecStart == Init /\ [][NextStart]_vars

(***************************************************************************)
(* SpecTwin: one sequence of calls made on the MockStore and, call by      *)
(* call, on the SupabaseStore of one client.  A call is made on the        *)
(* MockStore when the SupabaseStore has returned from the previous one,    *)
(* and is then made on the SupabaseStore, where it runs to its end with    *)
(* no request failing.  Two consecutive calls are different.               *)
(***************************************************************************)
\* the SupabaseStore has returned from the call last made on the MockStore
CaughtUp ==
  /\ cpc[1].at = "idle"
  /\ cRet[1].op = last.op
  /\ cRet[1].args = last.args

\* the next call of the sequence, made on the MockStore
TwinMock(call) ==
  /\ CaughtUp
  /\ call
  /\ last'.op # last.op \/ last'.args # last.args
  /\ UNCHANGED <<supaVars, ptsVars, timerVars>>

\* the same call is due on the SupabaseStore
TwinDue(op) ==
  /\ cpc[1].at = "idle"
  /\ last.op = op
  /\ cRet[1].op # last.op \/ cRet[1].args # last.args

NextTwin ==
  \/ TwinMock(\E s \in Durations : setTimerDuration(s))
  \/ TwinMock(startGame)
  \/ TwinMock(nextRecipient)
  \/ TwinMock(unlockPoll)
  \/ TwinMock(reset)
  \/ TwinDue("setTimerDuration") /\ SupaSetTimerDuration(1, last.args[1])
       /\ UNCHANGED <<ptsVars, timerVars>>
  \/ TwinDue("startGame") /\ SupaStartGame(1)
       /\ UNCHANGED <<ptsVars, timerVars>>
  \/ TwinDue("nextRecipient") /\ SupaNextRecipient(1)
       /\ UNCHANGED <<ptsVars, timerVars>>
  \/ TwinDue("unlockPoll") /\ SupaUnlockPoll(1)
       /\ UNCHANGED <<ptsVars, timerVars>>
  \/ TwinDue("reset") /\ SupaReset(1) /\ UNCHANGED <<ptsVars, timerVars>>
  \/ TimerUpdate(1) /\ UNCHANGED <<ptsVars, timerVars>>
  \/ StartSelect(1) /\ UNCHANGED <<ptsVars, timerVars>>
  \/ StartRpc(1) /\ UNCHANGED <<ptsVars, timerVars>>
  \/ NextRpc(1) /\ UNCHANGED <<ptsVars, timerVars>>
  \/ UnlockPollUpdate(1) /\ UNCHANGED <<ptsVars, timerVars>>
  \/ ResetRoom(1) /\ UNCHANGED <<ptsVars, timerVars>>
  \/ ResetSubmissions(1) /\ UNCHANGED <<ptsVars, timerVars>>
  \/ ResetActualSantas(1) /\ UNCHANGED <<ptsVars, timerVars>>
  \/ ResetPollVotes(1) /\ UNCHANGED <<ptsVars, timerVars>>
  \/ ResetSweaterVotes(1) /\ UNCHANGED <<ptsVars, timerVars>>
  \/ FetchSelect(1) /\ UNCHANGED <<ptsVars, timerVars>>
  \/ FetchApply(1) /\ UNCHANGED <<ptsVars, timerVars>>
SpecTwin == Init /\ [][NextTwin]_vars

(***************************************************************************)
(* Properties of the MockStore.                                            *)
(***************************************************************************)
\* the step is a call of the operation op (Tick is the only step that
\* moves the clock, and every call records itself in last)
IsCall(op) == clock' = clock /\ last'.op = op

\* the submissions of one (player, round) pair among the rows subs
SubmissionsIn(subs, playerName, roundIndex) ==
  {s \in subs : s.player_name = playerName /\ s.round_index = roundIndex}
SubmissionsOf(playerName, roundIndex) ==
  SubmissionsIn(getAllSubmissions, playerName, roundIndex)

\* C1: for every (player, round) pair a submitGuess call returns true
\* exactly when no submission of the pair is stored (the first call), a
\* rejected call leaves the stored submission as it was, and after either
\* call exactly one submission of the pair is stored.
C1_SubmitOncePerPair ==
  [][IsCall("submitGuess") =>
       LET p == last'.args[1]
           r == last'.args[2]
       IN /\ last'.ret = (SubmissionsOf(p, r) = {})
          /\ SubmissionsOf(p, r) # {} => getAllSubmissions' = getAllSubmissions
          /\ Cardinality(SubmissionsIn(getAllSubmissions', p, r)) = 1]_vars

\* a second call for a pair was rejected while another pair is stored too
C1_Witness ==
  /\ last.op = "submitGuess"
  /\ last.ret = FALSE
  /\ Cardinality(SubmissionsOf(last.args[1], last.args[2])) = 1
  /\ Cardinality(getAllSubmissions) = 2

\* C3: while the game is started the current index points into the
\* opening order, and getCurrentRecipient returns a name.
C3_IndexInRange ==
  roomState.isStarted =>
    /\ 0 <= roomState.currentIndex
    /\ roomState.currentIndex < Len(roomState.openingOrder)
    /\ getCurrentRecipient # Null

\* the last recipient of a two-player game was reached by nextRecipient
C3_Witness ==
  /\ roomState.isStarted
  /\ last.op = "nextRecipient"
  /\ Len(roomState.openingOrder) = 2
  /\ roomState.currentIndex = 1

\* how often the name n occurs in the sequence s
Count(s, n) == Cardinality({i \in 1..Len(s) : s[i] = n})
IsPermutationOf(s, t) ==
  /\ Len(s) = Len(t)
  /\ \A n \in Range(s) \cup Range(t) : Count(s, n) = Count(t, n)

\* C4: right after startGame the opening order is a permutation of the
\* registered players, or of ALL_PLAYERS when nobody registered, the
\* current index is 0 and the current recipient is openingOrder[0].
C4_StartGamePermutation ==
  last.op = "startGame" =>
    /\ IsPermutationOf(roomState.openingOrder,
                       IF activePlayers # << >> THEN activePlayers
                                                ELSE ALL_PLAYERS)
    /\ NoDup(roomState.openingOrder)
    /\ roomState.currentIndex = 0
    /\ getCurrentRecipient = Some(roomState.openingOrder[1])

\* a game was started with two registered players, the second one first
C4_Witness ==
  /\ last.op = "startGame"
  /\ Len(activePlayers) = 2
  /\ roomState.openingOrder = <<activePlayers[2], activePlayers[1]>>

\* C5: a nextRecipient call on a started room that is not at its last
\* index adds exactly 1 to currentIndex; any other nextRecipient call
\* leaves currentIndex as it was.
C5_NextRecipientAdvance ==
  [][IsCall("nextRecipient") =>
       roomState'.currentIndex =
         IF /\ roomState.isStarted
            /\ roomState.currentIndex < Len(roomState.openingOrder) - 1
           THEN roomState.currentIndex + 1
           ELSE roomState.currentIndex]_vars

\* nextRecipient was called at the last index and left it there
C5_Witness ==
  /\ last.op = "nextRecipient"
  /\ roomState.isStarted
  /\ roomState.currentIndex = Len(roomState.openingOrder) - 1
  /\ roomState.currentIndex > 0
  /\ roomState.roundStartedAt # Some(clock)

\* C6: once the room is started, no call but reset changes openingOrder,
\* and a startGame call on a started room changes nothing of the room
\* state.
C6_OrderFixedOnceStarted ==
  [][roomState.isStarted /\ ~IsCall("reset") =>
       /\ roomState'.openingOrder = roomState.openingOrder
       /\ IsCall("startGame") => roomState' = roomState]_vars

UnlockFlags == {"resultsUnlocked", "pollUnlocked", "sweaterPollUnlocked"}
UnlockOp(flag) ==
  CASE flag = "resultsUnlocked" -> "unlockResults"
    [] flag = "pollUnlocked" -> "unlockPoll"
    [] flag = "sweaterPollUnlocked" -> "unlockSweaterPoll"

\* C7: each unlock call sets its own flag and changes nothing else of the
\* room state, and a flag that is true stays true in every step that is
\* not a reset or a startGame call.
C7_UnlockOneWay ==
  [][\A flag \in UnlockFlags :
       /\ IsCall(UnlockOp(flag)) =>
            roomState' = [roomState EXCEPT ![flag] = TRUE]
       /\ roomState[flag] /\ ~IsCall("reset") /\ ~IsCall("startGame") =>
            roomState'[flag]]_vars

\* all three gates are open and the host has advanced since
C7_Witness ==
  /\ roomState.resultsUnlocked
  /\ roomState.pollUnlocked
  /\ roomState.sweaterPollUnlocked
  /\ last.op = "nextRecipient"
  /\ roomState.currentIndex = 1

GuessArgs == SubmitNames \X Rounds \X GuessLists \X GameModes

\* C9: an accepted submitGuess(p, r, guesses, mode) stores a submission of
\* (p, r) with exactly those guesses and that mode, and every stored
\* submission is still stored, unchanged, after every step that is not a
\* reset call.
C9_SubmissionImmutable ==
  [][/\ IsCall("submitGuess") /\ last'.ret = TRUE =>
          \A a \in GuessArgs :
             submitGuess(a[1], a[2], a[3], a[4]) =>
               \E s \in getAllSubmissions' :
                  /\ s.player_name = a[1]
                  /\ s.round_index = a[2]
                  /\ s.guessed_santas = a[3]
                  /\ s.game_mode = a[4]
     /\ ~IsCall("reset") => getAllSubmissions \subseteq getAllSubmissions']_vars

\* a safe-mode submission with two guesses is still stored after the game
\* was started and the actual Santa of its round declared
C9_Witness ==
  /\ \E s \in getAllSubmissions :
        s.game_mode = "safe" /\ Len(s.guessed_santas) = 2
  /\ roomState.isStarted
  /\ last.op = "setActualSanta"

(***************************************************************************)
(* Properties of the SupabaseStore.                                        *)
(***************************************************************************)
SamePair(a, b) ==
  a.player_name = b.player_name /\ a.round_index = b.round_index

\* C2: of the submitGuess calls for one (player, round) pair that reach
\* the database, in whatever order the inserts of concurrent callers run,
\* exactly the first returns true and every other one returns false, the
\* table holds at most one row per pair, and its rows are the rows of the
\* calls that returned true.
C2_ConcurrentSubmitOnce ==
  /\ \A i, j \in 1..Len(dbSubmissions) :
        SamePair(dbSubmissions[i], dbSubmissions[j]) => i = j
  /\ \A i \in 1..Len(supaLog) :
        supaLog[i].why # "error" =>
          supaLog[i].ret =
            ~\E j \in 1..(i - 1) :
                /\ SamePair(supaLog[j].row, supaLog[i].row)
                /\ supaLog[j].why # "error"
  /\ Range(dbSubmissions) =
       {supaLog[i].row : i \in {k \in 1..Len(supaLog) : supaLog[k].ret = TRUE}}

\* two clients had inserts for the same pair in flight together, with
\* different guesses: the first decided returned true, the other false
C2_Witness ==
  \E i, j \in 1..Len(supaLog) :
     /\ i < j
     /\ SamePair(supaLog[i].row, supaLog[j].row)
     /\ supaLog[j].client \in supaLog[i].concurrent
     /\ supaLog[i].row # supaLog[j].row
     /\ supaLog[i].ret = TRUE
     /\ supaLog[j].ret = FALSE
     /\ supaLog[j].why = "conflict"
     /\ Len(dbSubmissions) = 1

\* C8: when reset() has returned, the room is as a freshly created room:
\* not started, empty opening order, index 0, no round start, the three
\* gates closed, the default durationSec, and no active players,
\* submissions, actual-Santa records or votes.
C8_ResetRestoresFreshRoom ==
  \A c \in Clients :
     cpc[c].at = "idle" /\ cRet[c].op = "reset" =>
       /\ ToRoomState(dbRoom) = InitialRoomState
       /\ dbRoom.active_players = << >>
       /\ dbSubmissions = << >>
       /\ dbActualSantas = << >>
       /\ dbPollVotes = << >>
       /\ dbSweaterVotes = << >>

\* the MockStore after reset() is the MockStore after construction
MockResetRestoresInit ==
  last.op = "reset" =>
    /\ roomState = InitialRoomState
    /\ activePlayers = << >>
    /\ submissions = EmptyMap
    /\ actualSantas = EmptyMap
    /\ pollVotes = EmptyMap
    /\ sweaterVotes = EmptyMap

(***************************************************************************)
(* Properties of calculatePoints.                                          *)
(***************************************************************************)
\* C10: handling one submission adds to its submitter, and to nobody
\* else, 0 points when the round has no declared actual Santa or the guess
\* list does not contain it, and otherwise 3 points when the submitter is
\* openingOrder[roundIndex] in risk mode (or without a mode), 1 point when
\* the submitter is that recipient in safe mode, and 1 point when the
\* submitter is not that round's recipient.
C10_PointsPerSubmission ==
  [][ptsI' = ptsI + 1 =>
       LET sub == ptsSubs[ptsI + 1]
           r == sub.round_index
           list == IF sub.guessed_santas = Null
                     THEN <<sub.guessed_santa_name>>
                     ELSE sub.guessed_santas[1]
           declared == r \in DOMAIN ptsSantas /\ ptsSantas[r] # ""
           contains ==
             declared /\ \E k \in 1..Len(list) : list[k] = ptsSantas[r]
           recipient ==
             r < Len(ptsOrder) /\ ptsOrder[r + 1] = sub.player_name
           expected ==
             IF ~contains THEN 0
             ELSE IF recipient /\ sub.game_mode \in {Null, Some("risk")} THEN 3
             ELSE 1
           names == DOMAIN ptsPoints[1] \cup DOMAIN ptsPoints'[1]
       IN \A n \in names :
             PointsOf(ptsPoints'[1], n) =
               PointsOf(ptsPoints[1], n)
                 + (IF n = sub.player_name THEN expected ELSE 0)]_vars

\* calculatePoints has finished on a recipient's safe submission whose
\* second guess is the actual Santa and a recipient's risk submission
C10_Witness ==
  /\ ptsI = 2
  /\ Len(ptsSubs) = 2
  /\ ptsOrder = <<"Alice", "Bob">>
  /\ ptsSubs[1].player_name = "Alice" /\ ptsSubs[1].round_index = 0
  /\ ptsSubs[1].game_mode = Some("safe")
  /\ ptsSubs[1].guessed_santas = Some(<<"Carol", "Bob">>)
  /\ ptsSubs[2].player_name = "Bob" /\ ptsSubs[2].round_index = 1
  /\ ptsSubs[2].game_mode = Null
  /\ ptsSubs[2].guessed_santas = Some(<<"Carol", "Bob">>)
  /\ ptsSantas = (0 :> "Bob" @@ 1 :> "Carol")
  /\ ptsPoints = Some(("Alice" :> 1) @@ ("Bob" :> 3))

\* C11: handling a submission whose round has no actual-Santa record leaves
\* every player's points as they were, whatever the submission's guesses
\* and game mode are.
C11_UndeclaredRoundScoresNothing ==
  [][(ptsI' = ptsI + 1
       /\ ptsSubs[ptsI + 1].round_index \notin DOMAIN ptsSantas)
      => ptsPoints' = ptsPoints]_vars

\* a risk submission by the round's recipient was handled, its round has no
\* record while the name it guesses is the declared Santa of another round
C11_Witness ==
  /\ ptsI >= 1
  /\ ptsPoints # Null
  /\ LET sub == ptsSubs[ptsI] IN
       /\ sub.round_index = 1
       /\ DOMAIN ptsSantas = {0}
       /\ ptsSantas[0] = "Bob"
       /\ sub.guessed_santas = Some(<<"Bob">>)
       /\ sub.game_mode = Some("risk")
       /\ ptsOrder = <<"Alice", "Bob">>
       /\ sub.player_name = "Bob"
       /\ ptsPoints[1]["Bob"] = 0

\* C12: the points record has exactly the names of openingOrder as keys,
\* each with a score >= 0, and handling a submission whose player is not in
\* openingOrder or whose round index is not an index of openingOrder leaves
\* the record as it was.
C12_KeysAreParticipants ==
  [][ptsPoints' # Null =>
       /\ DOMAIN ptsPoints'[1] = Range(ptsOrder')
       /\ \A n \in DOMAIN ptsPoints'[1] : ptsPoints'[1][n] >= 0
       /\ (ptsI' = ptsI + 1
            /\ (\/ ptsSubs[ptsI + 1].player_name \notin Range(ptsOrder)
                \/ ptsSubs[ptsI + 1].round_index >= Len(ptsOrder)))
           => ptsPoints' = ptsPoints]_vars

\* the number of recorded votes of the poll that are for the name
VotesFor(votes, name) ==
  Cardinality({v \in DOMAIN votes : votes[v] = name})

\* the tally has exactly the voted-for names, each with its number of votes
TallyCounts(results, votes) ==
  /\ DOMAIN results = {votes[v] : v \in DOMAIN votes}
  /\ \A n \in DOMAIN results : results[n] = VotesFor(votes, n)

\* a vote call on a poll: true and recorded when the voter has no recorded
\* vote, false and nothing changed when the voter has one
VoteOnce(before, after, voter, votedFor, ret) ==
  IF voter \in DOMAIN before
    THEN ret = FALSE /\ after = before
    ELSE ret = TRUE /\ after = Put(before, voter, votedFor)

\* C13: in the gift poll and in the sweater poll the first vote of a voter
\* name returns true and is recorded, every later vote of that name returns
\* false and leaves the recorded vote as it was; only reset, which empties
\* both polls, and accepted votes change the recorded votes, so has-voted
\* holds exactly for the voters with an accepted vote since the last reset;
\* and the tally of each poll maps each voted-for name to its number of
\* recorded votes, names without votes being absent.
C13_OneVotePerVoter ==
  [][/\ IF IsCall("submitPollVote")
          THEN VoteOnce(pollVotes, pollVotes', last'.args[1], last'.args[2],
                        last'.ret)
          ELSE IF IsCall("reset") THEN pollVotes' = EmptyMap
          ELSE pollVotes' = pollVotes
     /\ IF IsCall("submitSweaterVote")
          THEN VoteOnce(sweaterVotes, sweaterVotes', last'.args[1],
                        last'.args[2], last'.ret)
          ELSE IF IsCall("reset") THEN sweaterVotes' = EmptyMap
          ELSE sweaterVotes' = sweaterVotes
     /\ \A v \in PollVoters :
          /\ hasVoted(v)' = (v \in DOMAIN pollVotes')
          /\ hasSweaterVoted(v)' = (v \in DOMAIN sweaterVotes')
     /\ TallyCounts(getPollResults', pollVotes')
     /\ TallyCounts(getSweaterPollResults', sweaterVotes')]_vars

\* Bob's gift-poll vote was just rejected, Alice and Bob having voted for
\* the same name
C13_Witness ==
  /\ last = Call("submitPollVote", <<"Bob", "Carol">>, FALSE)
  /\ pollVotes = ("Alice" :> "Bob") @@ ("Bob" :> "Bob")
  /\ getPollResults = ("Bob" :> 2)

\* C14: a gift-poll vote leaves the sweater-poll votes, has-voted status
\* and tally as they were, a sweater-poll vote leaves those of the gift
\* poll as they were, and startGame, nextRecipient, submitGuess and the
\* three unlock operations leave both polls as they were.
C14_PollsIndependent ==
  [][/\ IsCall("submitPollVote") =>
          /\ sweaterVotes' = sweaterVotes
          /\ \A v \in PollVoters : hasSweaterVoted(v)' = hasSweaterVoted(v)
          /\ getSweaterPollResults' = getSweaterPollResults
     /\ IsCall("submitSweaterVote") =>
          /\ pollVotes' = pollVotes
          /\ \A v \in PollVoters : hasVoted(v)' = hasVoted(v)
          /\ getPollResults' = getPollResults
     /\ (\/ IsCall("startGame") \/ IsCall("nextRecipient")
         \/ IsCall("submitGuess") \/ IsCall("unlockResults")
         \/ IsCall("unlockPoll") \/ IsCall("unlockSweaterPoll")) =>
          /\ pollVotes' = pollVotes
          /\ sweaterVotes' = sweaterVotes]_vars

\* Alice, who has an accepted gift-poll vote, just had her sweater-poll
\* vote accepted as well
C14_Witness ==
  /\ last = Call("submitSweaterVote", <<"Alice", "Carol">>, TRUE)
  /\ pollVotes = ("Alice" :> "Bob")
  /\ sweaterVotes = ("Alice" :> "Carol")

\* the step is a call of client c that returns at once: no request is sent
\* or answered and neither the cache nor the room row changes
SyncCall(c, op, args) ==
  /\ cRet'[c] = Call(op, args, "void")
  /\ cState' = cState
  /\ dbRoom' = dbRoom
  /\ UNCHANGED mockVars

\* the step is subscribe(l) of client c
SupaSubscribed(c, l) ==
  /\ SyncCall(c, "subscribe", <<l>>)
  /\ l \in cListeners'[c]
  /\ \/ \A d \in Clients : cpc'[d].at = cpc[d].at
     \/ /\ cpc[c].at = "idle"
        /\ cpc'[c].at = "fetch_select"
        /\ cpc'[c].loc = "fetchRoomState"

\* the step is a call by client c of the function subscribe(l) returned
SupaUnsubscribed(c, l) ==
  /\ SyncCall(c, "unsubscribe", <<l>>)
  /\ \A d \in Clients : cpc'[d].at = cpc[d].at

\* C15: subscribe calls the callback with the current room snapshot before
\* it returns, in the MockStore and in the SupabaseStore, and every step
\* that changes the room state of a store calls each callback subscribed to
\* that store at that moment once, with the new state.
C15_SubscribeDeliversSnapshot ==
  [][/\ \A l \in Callbacks :
          subscribe(l) => delivered'[l] = <<roomState>>
     /\ \A c \in Clients, l \in Callbacks :
          SupaSubscribed(c, l) =>
            cDelivered'[c][l] = <<SupaGetRoomState(c)>>
     /\ roomState' # roomState =>
          \A l \in listeners : delivered'[l] = <<roomState'>>
     /\ \A c \in Clients :
          cState'[c] # cState[c] =>
            \A l \in cListeners[c] : cDelivered'[c][l] = <<cState'[c][1]>>]_vars

\* the MockStore alone: subscribe calls the callback with the current state
\* and every change of roomState calls every subscribed callback once
MockSubscribeDelivers ==
  [][/\ \A l \in Callbacks :
          subscribe(l) => delivered'[l] = <<roomState>>
     /\ roomState' # roomState =>
          \A l \in listeners : delivered'[l] = <<roomState'>>]_vars

\* C16: the function returned by subscribe removes its own callback from
\* the listeners and does nothing else, so that calling it again has no
\* effect; the listeners change in no other way than by subscribe and
\* unsubscribe; and a step calls a callback only if the callback is
\* subscribed, so that no state change, realtime event or poll calls a
\* callback after its unsubscribe, while the other callbacks are still
\* called.
C16_UnsubscribeStopsDelivery ==
  [][/\ \A l \in Callbacks :
          /\ unsubscribe(l) =>
               /\ listeners' = listeners \ {l}
               /\ delivered' = NoCalls
               /\ roomState' = roomState
          /\ delivered'[l] # << >> => l \in listeners'
          /\ (l \in listeners /\ l \notin listeners') => unsubscribe(l)
     /\ roomState' # roomState =>
          \A l \in listeners' : delivered'[l] # << >>
     /\ \A c \in Clients :
          /\ \A l \in Callbacks :
               /\ SupaUnsubscribed(c, l) =>
                    /\ cListeners'[c] = cListeners[c] \ {l}
                    /\ cDelivered'[c] = NoCalls
               /\ cDelivered'[c][l] # << >> => l \in cListeners'[c]
               /\ (l \in cListeners[c] /\ l \notin cListeners'[c])
                    => SupaUnsubscribed(c, l)
          /\ cState'[c] # cState[c] =>
               \A l \in cListeners'[c] : cDelivered'[c][l] # << >>]_vars

\* in both stores callback 1 was unsubscribed while callback 2 stayed, and
\* a later change of the timer duration was delivered to callback 2 only
C16_Witness ==
  /\ unsubFns = {1, 2} /\ listeners = {2}
  /\ last.op = "setTimerDuration"
  /\ delivered[1] = << >> /\ delivered[2] = <<roomState>>
  /\ roomState.durationSec = 60
  /\ cUnsubFns[1] = {1, 2} /\ cListeners[1] = {2}
  /\ cState[1] # Null /\ cState[1][1].durationSec = 60
  /\ cDelivered[1][1] = << >> /\ cDelivered[1][2] = <<cState[1][1]>>

\* C17: a submitGuess call that is answered with a uniqueness conflict
\* returns a result different from that of a call whose insert fails for
\* another reason.
C17_ConflictDistinguishable ==
  \A i, j \in 1..Len(supaLog) :
     (supaLog[i].why = "conflict" /\ supaLog[j].why = "error")
       => supaLog[i].ret # supaLog[j].ret

\* the step is the MockStore call op (the SupabaseStore does not move)
MockCall(op) == last'.op = op /\ UNCHANGED supaVars

C19_RegisterIdempotent ==
  [][/\ MockCall("registerPlayer") =>
          /\ last'.args[1] \in Range(getActivePlayers)
               => getActivePlayers' = getActivePlayers
          /\ Count(getActivePlayers', last'.args[1]) = 1
     /\ NoDup(getActivePlayers')
     /\ NoDup(SupaGetActivePlayers')
     /\ \A c \in Clients :
          cRet'[c].op = "registerPlayer" =>
            Count(SupaGetActivePlayers', cRet'[c].args[1]) = 1]_vars

\* the MockStore alone: registerPlayer adds the name unless it is there
MockRegisterIdempotent ==
  [][/\ MockCall("registerPlayer") =>
          /\ last'.args[1] \in Range(getActivePlayers)
               => getActivePlayers' = getActivePlayers
          /\ Count(getActivePlayers', last'.args[1]) = 1
     /\ NoDup(getActivePlayers')]_vars

\* C20: the remaining time of useTimer is within 0..durationSec; without
\* startedAt it is durationSec and isExpired is false; after a tick it is
\* max(0, durationSec - floor((now - startedAt) / 1000)); isExpired holds
\* exactly when it is 0 and isLowTime exactly when it is in 1..10, never
\* both.
C20_TimeLeftInRange ==
  [][/\ timeLeft' \in 0..tDurationSec'
     /\ tStartedAt' = Null => (timeLeft' = tDurationSec' /\ ~isExpired')
     /\ (TimerTick /\ tStartedAt # Null) =>
          timeLeft' = Max(0, tDurationSec
                               - ((tNow - tStartedAt[1]) \div MsPerSec))
     /\ isExpired' = (timeLeft' = 0)
     /\ isLowTime' = (timeLeft' \in 1..LowTimeSec)
     /\ ~(isExpired' /\ isLowTime')]_vars

\* the part of C20 that the hook keeps: the remaining time is never
\* negative, a tick sets it from the props its interval was set with, and
\* isExpired and isLowTime exclude each other
TimerNeverNegative ==
  [][/\ timeLeft' >= 0
     /\ TimerTick =>
          timeLeft' = Max(0, tInterval[1][2]
                               - ((tNow - tInterval[1][1]) \div MsPerSec))
     /\ isExpired' = (timeLeft' = 0)
     /\ isLowTime' = (timeLeft' \in 1..LowTimeSec)
     /\ ~(isExpired' /\ isLowTime')]_vars

\* a tick of the interval of the current props, at a clock before
\* startedAt, has left more time than durationSec
TimerAheadOfClock ==
  /\ ~tEffect
  /\ tInterval = Some(<<1500, tDurationSec>>)
  /\ tStartedAt = Some(1500)
  /\ tNow = 1000
  /\ timeLeft = tDurationSec + 1

(***************************************************************************)
(* Properties of the synchronization of the SupabaseStore.                 *)
(***************************************************************************)
\* C21: under every interleaving of nextRecipient calls of the clients, the
\* persisted current_index of a started game never exceeds
\* len(opening_order) - 1.
C21_IndexNeverPastLastRound ==
  dbRoom.is_started => dbRoom.current_index <= Len(dbRoom.opening_order) - 1

\* C22: nothing orders the poll path and the push path.  The assignment of
\* fetchRoomState stores the row that its select read and delivers it to
\* every subscriber, whatever the cached state is, and a realtime event
\* stores and delivers the current row; so a poll response read before a
\* change and applied after the push of that change takes the subscribers
\* back to the older snapshot.
C22_NoOrderingGuard ==
  [][\A c \in Clients :
       /\ (cpc[c].at = "fetch_apply" /\ cpc'[c].at = "idle") =>
            /\ cState'[c] = Some(ToRoomState(cpc[c].loc[2]))
            /\ \A l \in cListeners[c] :
                 cDelivered'[c][l] = <<ToRoomState(cpc[c].loc[2])>>
       /\ (cpc'[c].at = cpc[c].at /\ cState'[c] # cState[c]) =>
            /\ cState'[c] = Some(ToRoomState(dbRoom))
            /\ \A l \in cListeners[c] :
                 cDelivered'[c][l] = <<ToRoomState(dbRoom)>>]_vars

\* a subscriber has just been delivered, by a realtime event, the snapshot
\* of the current row, and the response of a poll that read the row before
\* the round was advanced is about to be applied
C22_Witness ==
  \E c \in Clients, l \in Callbacks :
    /\ l \in cListeners[c]
    /\ cState[c] = Some(ToRoomState(dbRoom))
    /\ cDelivered[c][l] = <<ToRoomState(dbRoom)>>
    /\ cpc[c].at = "fetch_apply"
    /\ cpc[c].loc[1] = "poll"
    /\ cpc[c].loc[2].opening_order = dbRoom.opening_order
    /\ cpc[c].loc[2].is_started
    /\ cpc[c].loc[2].current_index < dbRoom.current_index

\* every client's cached room state is the persisted row
Synced == \A c \in Clients : cState[c] = Some(ToRoomState(dbRoom))

\* C23: with every realtime event lost, if the room row stops changing then
\* polling brings every client's observed room state to the persisted row,
\* and it stays there.
C23_PollingConverges ==
  (<>[][dbRoom' = dbRoom]_vars) => <>[]Synced

\* the round was advanced, no event arrived, and a poll of a watching
\* client has returned with the row as it is now
C23_Witness ==
  \E c \in Watchers :
    /\ dbRoom.current_index = 1
    /\ cRet[c].op = "poll"
    /\ cpc[c].at = "idle"
    /\ cState[c] = Some(ToRoomState(dbRoom))

\* C24: a fetchRoomState whose select fails leaves the cached state of the
\* client as it was, calls no subscriber, removes no subscriber, and leaves
\* the client idle, so that the polling timer fetches again.
C24_FetchFailureKeepsSync ==
  [][\A c \in Clients :
       (cpc[c].at = "fetch_select"
          /\ cpc'[c].at \notin {"fetch_select", "fetch_apply"}) =>
         /\ cState'[c] = cState[c]
         /\ cDelivered'[c] = NoCalls
         /\ cListeners' = cListeners
         /\ cUnsubFns' = cUnsubFns
         /\ cpc'[c].at = "idle"]_vars

\* a poll of a watching client with a subscriber has just returned without
\* calling the subscriber: its select failed
C24_Witness ==
  \E c \in Watchers :
    /\ 1 \in cListeners[c]
    /\ cRet[c].op = "poll"
    /\ cpc[c].at = "idle"
    /\ cDelivered[c][1] = << >>
    /\ cState[c] = Some(ToRoomState(StartedRoom))
    /\ dbRoom = StartedRoom
    /\ \A d \in Clients \ {c} :
         cpc[d].at = "idle" /\ cRet[d].op = "startGame"

\* C25: once the registerPlayer calls that the clients made with distinct
\* names have all returned, every one of those names is in active_players.
C25_ConcurrentRegistrationsKept ==
  (/\ \A c \in Clients : cpc[c].at = "idle" /\ cRet[c].op = "registerPlayer"
   /\ \A c, d \in Clients : c # d => cRet[c].args[1] # cRet[d].args[1])
    => \A c \in Clients : cRet[c].args[1] \in Range(SupaGetActivePlayers)

\* the room row is in the lobby state
Lobby(room) ==
  /\ ~room.is_started
  /\ room.opening_order = << >>
  /\ ~room.results_unlocked
  /\ ~room.poll_unlocked
  /\ ~room.sweater_poll_unlocked

\* C26: when reset() has put the room of a started game back in the lobby
\* state, no submission, actual-Santa record or vote of that game exists
\* any more, and when reset() returns the four tables are empty.
C26_ResetNeverHalfDone ==
  [][\A c \in Clients :
       /\ (cpc[c].at = "reset_room" /\ cpc'[c].at = "reset_submissions"
              /\ dbRoom.is_started /\ Lobby(dbRoom')) =>
            /\ dbSubmissions' = << >>
            /\ dbActualSantas' = << >>
            /\ dbPollVotes' = << >>
            /\ dbSweaterVotes' = << >>
       /\ (cpc[c].at = "reset_sweater_votes" /\ cpc'[c].at = "idle") =>
            /\ dbSubmissions' = << >>
            /\ dbActualSantas' = << >>
            /\ dbPollVotes' = << >>
            /\ dbSweaterVotes' = << >>]_vars

\* C27: every round_started_at that startGame() or nextRecipient() writes
\* is the time of the database server at the write, and within one game
\* the stamps do not decrease.
C27_StampsFromServerClock ==
  [][(dbRoom'.round_started_at # dbRoom.round_started_at
        /\ dbRoom'.round_started_at # Null) =>
       /\ dbRoom'.round_started_at = Some(clock)
       /\ (dbRoom.round_started_at # Null /\ dbRoom'.current_index > 0) =>
            dbRoom'.round_started_at[1] >= dbRoom.round_started_at[1]]_vars

\* C28: right after startGame() has taken effect, in the MockStore and in
\* the SupabaseStore, the index is 0, the round start is set, the game is
\* started, the three unlock flags are false, and the duration, the active
\* players, the submissions, the actual-Santa records and the votes are as
\* they were.
C28_StartGameEffect ==
  [][/\ MockCall("startGame") =>
          /\ roomState'.currentIndex = 0
          /\ roomState'.roundStartedAt # Null
          /\ roomState'.isStarted
          /\ ~roomState'.resultsUnlocked
          /\ ~roomState'.pollUnlocked
          /\ ~roomState'.sweaterPollUnlocked
          /\ roomState'.durationSec = roomState.durationSec
          /\ UNCHANGED <<activePlayers, submissions, actualSantas,
                         pollVotes, sweaterVotes>>
     /\ \A c \in Clients :
          (cpc[c].at \in {"start_rpc", "start_fallback"}
             /\ cpc'[c].at = "fetch_select") =>
            /\ dbRoom'.current_index = 0
            /\ dbRoom'.round_started_at # Null
            /\ dbRoom'.is_started
            /\ ~dbRoom'.results_unlocked
            /\ ~dbRoom'.poll_unlocked
            /\ ~dbRoom'.sweater_poll_unlocked
            /\ dbRoom'.duration_sec = dbRoom.duration_sec
            /\ dbRoom'.active_players = dbRoom.active_players
            /\ UNCHANGED <<dbSubmissions, dbActualSantas, dbPollVotes,
                           dbSweaterVotes>>]_vars

\* C29: after each call of a sequential, failure-free sequence made on both
\* stores, the room of the SupabaseStore and the room of the MockStore
\* agree on isStarted, currentIndex, durationSec and the three unlock
\* flags, and their opening orders are permutations of each other.
C29_StoresInterchangeable ==
  CaughtUp =>
    LET state == ToRoomState(dbRoom) IN
      /\ state.isStarted = roomState.isStarted
      /\ state.currentIndex = roomState.currentIndex
      /\ state.durationSec = roomState.durationSec
      /\ state.resultsUnlocked = roomState.resultsUnlocked
      /\ state.pollUnlocked = roomState.pollUnlocked
      /\ state.sweaterPollUnlocked = roomState.sweaterPollUnlocked
      /\ IsPermutationOf(state.openingOrder, roomState.openingOrder)

\* C30: every submission the store holds has exactly 1 guess when its
\* gameMode is risk, and between 1 and 3 distinct guesses when it is safe.
C30_GuessCountPerMode ==
  \A key \in DOMAIN submissions :
    LET guesses == submissions[key].guessedSantas IN
      /\ submissions[key].gameMode = "risk" => Len(guesses) = 1
      /\ submissions[key].gameMode = "safe" =>
           Len(guesses) \in 1..3 /\ NoDup(guesses)


====
